---- MODULE Spec2Model ----
(***************************************************************************)
(* Drift detection and plan adjustment of drift_mirror.                    *)
(*                                                                         *)
(* Python floats are modelled as exact rationals [n, d] (d > 0) and        *)
(* compared by cross multiplication.  A datetime is [secs, us]: whole      *)
(* seconds since a Monday 00:00:00 UTC and microseconds within the second. *)
(***************************************************************************)
EXTENDS Integers, Sequences, FiniteSets, TLC

VARIABLES
    pc,               \* position of the modelled call: "input" or "done"
    checkins,         \* check-in rows, newest first (order_by created_at desc)
    target_frequency, \* weekly target handed to the drift functions
    now,              \* datetime.now(timezone.utc) of the call
    freq_stats,       \* result of get_weekly_frequency_stats
    rates,            \* its locals this_week_rate, last_week_rate before rounding
    drift_score,      \* result of compute_drift_score
    drift_triggered,  \* result of should_trigger_mirror
    other_frictions,  \* friction values of a second, otherwise equal list
    other_score,      \* compute_drift_score of that second list
    current_plan,     \* Plan row handed to compute_plan_adjustment
    metrics,          \* drift_score, avg_friction, completion_rate, minimum_action_rate
    recent_checkins,  \* recent check-ins handed to compute_plan_adjustment
    adjustment,       \* result of compute_plan_adjustment: [changes, reason]
    rules_applied,    \* result of get_drift_rules_applied
    suggestions,      \* result of generate_actionable_suggestions
    time_window_required, \* the plans table rejects a NULL time_window
    resolutions,      \* rows of the resolutions table, by id
    plans,            \* rows of the plans table, by id
    checkin_rows,     \* rows of the checkins table, by id
    insight_actions,  \* rows of the insight_actions table, by id
    request,          \* the request handled last and its response status
    inflight,         \* per worker, the plan-changing request it is handling
    signals,          \* rows of the signals table, by id
    mirror_reports,   \* rows of the mirror_reports table, by id
    feedback,         \* rows of the feedback table, by id
    deleted,          \* per table, the ids of the rows deleted
    foreign_keys_enforced, \* the database checks FOREIGN KEY constraints
    dashboard,        \* metrics and flag of the dashboard read last
    second_call,      \* a later call of the drift functions: its instant, results
    limiter,          \* RateLimitMiddleware: clock, _hits, requests forwarded
    gemini            \* a call_gemini invocation: its position, attempts, sleeps

\* results of the explaining functions
explainvars == <<rules_applied, suggestions>>

\* the database and the requests working on it
storevars == <<time_window_required, resolutions, plans, checkin_rows,
               insight_actions, request, inflight, signals, mirror_reports,
               feedback, deleted, foreign_keys_enforced>>

\* the tables the plan-changing handlers leave alone
tablevars == <<signals, mirror_reports, feedback, deleted,
               foreign_keys_enforced>>

\* what the calls outside create_checkin leave behind
auxvars == <<dashboard, second_call, limiter, gemini>>

vars == <<pc, checkins, target_frequency, now, freq_stats, rates, drift_score,
          drift_triggered, other_frictions, other_score, current_plan,
          metrics, recent_checkins, adjustment, rules_applied, suggestions,
          time_window_required, resolutions, plans, checkin_rows,
          insight_actions, request, inflight, signals, mirror_reports,
          feedback, deleted, foreign_keys_enforced, dashboard, second_call,
          limiter, gemini>>

(***************************************************************************)
(* Rationals                                                               *)
(***************************************************************************)
Rat(n, d) == [n |-> n, d |-> d]

RatLt(a, b) == a.n * b.d < b.n * a.d

RatLe(a, b) == a.n * b.d <= b.n * a.d

RatEq(a, b) == a.n * b.d = b.n * a.d

RECURSIVE Gcd(_, _)
Gcd(a, b) == IF b = 0 THEN a ELSE Gcd(b, a % b)

\* lowest terms, positive denominator
Norm(n, d) ==
    LET g == Gcd(IF n < 0 THEN -n ELSE n, d)
    IN  IF n = 0 THEN Rat(0, 1) ELSE Rat(n \div g, d \div g)

RatAdd(a, b) == Norm(a.n * b.d + b.n * a.d, a.d * b.d)

RatSub(a, b) == Norm(a.n * b.d - b.n * a.d, a.d * b.d)

RatMul(a, b) == Norm(a.n * b.n, a.d * b.d)

Min(a, b) == IF a <= b THEN a ELSE b

Max(a, b) == IF a >= b THEN a ELSE b

(***************************************************************************)
(* datetime and timedelta                                                  *)
(***************************************************************************)
SecondsPerDay == 86400

MicrosPerSecond == 1000000

DateTime(day, h, m, s, us) ==
    [secs |-> day * SecondsPerDay + h * 3600 + m * 60 + s, us |-> us]

\* timedelta(days=, hours=, minutes=, seconds=): no microseconds argument
timedelta(days, hours, minutes, seconds) ==
    [secs |-> days * SecondsPerDay + hours * 3600 + minutes * 60 + seconds,
     us |-> 0]

weekday(dt) == (dt.secs \div SecondsPerDay) % 7

hour(dt) == (dt.secs % SecondsPerDay) \div 3600

minute(dt) == (dt.secs % 3600) \div 60

second(dt) == dt.secs % 60

\* datetime - timedelta, with the borrow of the microsecond field
DtSub(dt, td) ==
    IF dt.us >= td.us
    THEN [secs |-> dt.secs - td.secs, us |-> dt.us - td.us]
    ELSE [secs |-> dt.secs - td.secs - 1,
          us |-> dt.us + MicrosPerSecond - td.us]

DtLe(a, b) == a.secs < b.secs \/ (a.secs = b.secs /\ a.us <= b.us)

DtLt(a, b) == a.secs < b.secs \/ (a.secs = b.secs /\ a.us < b.us)

\* (a - b).days: whole days of the difference, rounded towards minus infinity
DaysBetween(a, b) ==
    LET s == IF a.us >= b.us THEN a.secs - b.secs ELSE a.secs - b.secs - 1
    IN  s \div SecondsPerDay

(***************************************************************************)
(* get_weekly_frequency_stats                                              *)
(***************************************************************************)
this_week_start(t) ==
    DtSub(t, timedelta(weekday(t), hour(t), minute(t), second(t)))

last_week_start(t) == DtSub(this_week_start(t), timedelta(7, 0, 0, 0))

\* a plausible slip: every check-in of the week counts, done or not
InThisWeekAny(c, t) == DtLe(this_week_start(t), c.created_at)

InThisWeek(c, t) == DtLe(this_week_start(t), c.created_at) /\ c.did_minimum_action

InLastWeek(c, t) ==
    /\ DtLe(last_week_start(t), c.created_at)
    /\ DtLt(c.created_at, this_week_start(t))
    /\ c.did_minimum_action

RECURSIVE this_week_count(_, _)
this_week_count(cs, t) ==
    IF cs = <<>> THEN 0
    ELSE (IF InThisWeek(Head(cs), t) THEN 1 ELSE 0) + this_week_count(Tail(cs), t)

RECURSIVE last_week_count(_, _)
last_week_count(cs, t) ==
    IF cs = <<>> THEN 0
    ELSE (IF InLastWeek(Head(cs), t) THEN 1 ELSE 0) + last_week_count(Tail(cs), t)

\* a plausible slip: the rate without its cap at 1.0
weekly_rate_uncapped(count, target) ==
    IF target > 0 THEN Rat(count, target) ELSE Rat(0, 1)

\* min(count / target_frequency, 1.0) if target_frequency > 0 else 0
weekly_rate(count, target) ==
    IF target > 0 THEN Rat(Min(count, target), target) ELSE Rat(0, 1)

\* round(x, 2) in hundredths: correctly rounded, ties to even
round2(x) ==
    LET q == (100 * x.n) \div x.d
        r == (100 * x.n) % x.d
    IN  IF 2 * r > x.d \/ (2 * r = x.d /\ q % 2 = 1) THEN q + 1 ELSE q

\* Double arithmetic where a + 0.1 or a - 0.1 meets the other rate exactly:
\* <<target, capped this-week count, capped last-week count>> for which
\* this_week_rate > last_week_rate + 0.1 is true in IEEE doubles
FloatTieImproving == {<<10, 8, 7>>, <<20, 9, 7>>, <<20, 16, 14>>}

\* and for which this_week_rate < last_week_rate - 0.1 is true
FloatTieDeclining ==
    {<<10, 3, 4>>, <<10, 7, 8>>, <<20, 6, 8>>, <<20, 9, 11>>, <<20, 14, 16>>}

\* this_week_rate > last_week_rate + 0.1
ExceedsByTenth(a, b) ==
    IF a.d = b.d /\ 10 * (a.n - b.n) = a.d
    THEN <<a.d, a.n, b.n>> \in FloatTieImproving
    ELSE 10 * (a.n * b.d - b.n * a.d) > a.d * b.d

\* this_week_rate < last_week_rate - 0.1
BelowByTenth(a, b) ==
    IF a.d = b.d /\ 10 * (b.n - a.n) = a.d
    THEN <<a.d, a.n, b.n>> \in FloatTieDeclining
    ELSE 10 * (b.n * a.d - a.n * b.d) > a.d * b.d

\* a plausible slip: the trend taken from the rounded rates that are returned
trend_of_rounded(this_rate, last_rate) ==
    LET r1 == round2(this_rate)
        r2 == round2(last_rate)
    IN  IF r1 - r2 > 10 THEN "improving"
        ELSE IF r2 - r1 > 10 THEN "declining"
        ELSE "stable"

trend_of(this_rate, last_rate) ==
    IF ExceedsByTenth(this_rate, last_rate) THEN "improving"
    ELSE IF BelowByTenth(this_rate, last_rate) THEN "declining"
    ELSE "stable"

RECURSIVE max_created_at(_)
\* max(checkins, key=lambda c: c.created_at).created_at
max_created_at(cs) ==
    IF Len(cs) = 1 THEN Head(cs).created_at
    ELSE LET m == max_created_at(Tail(cs))
         IN  IF DtLt(Head(cs).created_at, m) THEN m ELSE Head(cs).created_at

\* the locals this_week_rate and last_week_rate of lines 46-47
local_rates(cs, target, t) ==
    IF cs = <<>> THEN [this_week |-> Rat(0, 1), last_week |-> Rat(0, 1)]
    ELSE [this_week |-> weekly_rate(this_week_count(cs, t), target),
          last_week |-> weekly_rate(last_week_count(cs, t), target)]

\* Rates are returned in hundredths; days_since_last is <<>> for None.
get_weekly_frequency_stats(cs, target, t) ==
    IF cs = <<>>
    THEN [this_week_count |-> 0, this_week_target |-> target,
          this_week_rate |-> 0, last_week_count |-> 0, last_week_rate |-> 0,
          trend |-> "stable", days_since_last |-> <<>>]
    ELSE LET twc == this_week_count(cs, t)
             lwc == last_week_count(cs, t)
             twr == weekly_rate(twc, target)
             lwr == weekly_rate(lwc, target)
         IN  [this_week_count |-> twc, this_week_target |-> target,
              this_week_rate |-> round2(twr),
              last_week_count |-> lwc, last_week_rate |-> round2(lwr),
              trend |-> trend_of(twr, lwr),
              days_since_last |-> <<DaysBetween(t, max_created_at(cs))>>]

(***************************************************************************)
(* compute_drift_score, should_trigger_mirror                              *)
(***************************************************************************)
RecentWindow == 5

\* n = min(len(checkins), 5)
RecentCount(cs) == Min(Len(cs), RecentWindow)

\* a plausible slip: the whole history instead of the slice
RecentUnsliced(cs) == cs

\* recent = checkins[:n]
Recent(cs) == SubSeq(cs, 1, RecentCount(cs))

RECURSIVE SumFriction(_)
\* sum(c.friction for c in recent)
SumFriction(cs) ==
    IF cs = <<>> THEN 0 ELSE Head(cs).friction + SumFriction(Tail(cs))

RECURSIVE CountDone(_)
\* sum(1 for c in recent if c.did_minimum_action)
CountDone(cs) ==
    IF cs = <<>> THEN 0
    ELSE (IF Head(cs).did_minimum_action THEN 1 ELSE 0) + CountDone(Tail(cs))

RECURSIVE CountBlocker(_)
\* sum(1 for c in recent if c.blocker)
CountBlocker(cs) ==
    IF cs = <<>> THEN 0
    ELSE (IF Head(cs).blocker THEN 1 ELSE 0) + CountBlocker(Tail(cs))

\* a plausible slip: the average taken with integer division
avg_friction_floor(recent, n) == Rat(SumFriction(recent) \div n, 1)

\* avg_friction = sum(c.friction for c in recent) / n
avg_friction_of(recent, n) == Rat(SumFriction(recent), n)

\* a plausible slip: the score scaled to a percentage
ClampPercent(x) ==
    IF RatLt(x, Rat(0, 1)) THEN Rat(0, 1)
    ELSE IF RatLt(Rat(1, 1), x) THEN Rat(100, 1)
    ELSE RatMul(x, Rat(100, 1))

\* min(max(drift, 0.0), 1.0)
Clamp01(x) ==
    IF RatLt(x, Rat(0, 1)) THEN Rat(0, 1)
    ELSE IF RatLt(Rat(1, 1), x) THEN Rat(1, 1)
    ELSE x

compute_drift_score(cs, target, t) ==
    IF cs = <<>> THEN Rat(0, 1)
    ELSE LET stats == get_weekly_frequency_stats(cs, target, t)
             n == RecentCount(cs)
             recent == Recent(cs)
             frequency_drift == RatSub(Rat(1, 1), Rat(stats.this_week_rate, 100))
             completion_rate == Rat(CountDone(recent), n)
             completion_drift == RatSub(Rat(1, 1), completion_rate)
             avg_friction == avg_friction_of(recent, n)
             friction_drift == RatMul(RatSub(avg_friction, Rat(1, 1)), Rat(1, 2))
             blocker_rate == Rat(CountBlocker(recent), n)
             drift ==
                 RatAdd(RatAdd(RatAdd(RatMul(frequency_drift, Rat(40, 100)),
                                      RatMul(completion_drift, Rat(25, 100))),
                               RatMul(friction_drift, Rat(20, 100))),
                        RatMul(blocker_rate, Rat(15, 100)))
         IN  Clamp01(drift)

\* a plausible slip: the threshold itself triggers
should_trigger_mirror_inclusive(score, checkin_count) ==
    RatLe(Rat(4, 10), score) /\ checkin_count >= 3

\* drift_score > 0.4 and checkin_count >= 3
should_trigger_mirror(score, checkin_count) ==
    RatLt(Rat(4, 10), score) /\ checkin_count >= 3

(***************************************************************************)
(* get_drift_rules_applied                                                 *)
(***************************************************************************)
\* a rule tag; detail holds the values formatted into the string
Rule(tag, detail) == [tag |-> tag, detail |-> detail]

\* a plausible slip: an average of exactly 2 counts as high friction
high_friction_inclusive(recent, n) ==
    RatLe(Rat(2, 1), avg_friction_of(recent, n))

\* avg_friction > 2
high_friction(recent, n) == RatLt(Rat(2, 1), avg_friction_of(recent, n))

get_drift_rules_applied(score, cs, target, t) ==
    IF cs = <<>> THEN <<Rule("no_checkins", <<>>)>>
    ELSE LET stats == get_weekly_frequency_stats(cs, target, t)
             n == RecentCount(cs)
             recent == Recent(cs)
             completed == CountDone(recent)
             blocker_count == CountBlocker(recent)
             days == stats.days_since_last
             rules ==
                 (IF stats.this_week_rate < 50
                  THEN <<Rule("below_weekly_target",
                              <<stats.this_week_count, stats.this_week_target>>)>>
                  ELSE <<>>)
                 \o (IF stats.trend = "declining"
                     THEN <<Rule("declining_frequency", <<>>)>> ELSE <<>>)
                 \o (IF days # <<>> /\ days[1] # 0 /\ days[1] >= 3
                     THEN <<Rule("gap_detected", days)>> ELSE <<>>)
                 \o (IF 2 * completed < n
                     THEN <<Rule("low_completion", <<completed, n>>)>>
                     ELSE <<>>)
                 \o (IF high_friction(recent, n)
                     THEN <<Rule("high_friction", <<SumFriction(recent), n>>)>>
                     ELSE <<>>)
                 \o (IF blocker_count >= 2
                     THEN <<Rule("repeated_blockers", <<blocker_count>>)>>
                     ELSE <<>>)
                 \o (IF RatLt(Rat(6, 10), score)
                     THEN <<Rule("significant_drift", <<>>)>>
                     ELSE IF RatLt(Rat(4, 10), score)
                     THEN <<Rule("moderate_drift", <<>>)>>
                     ELSE <<>>)
         IN  IF rules # <<>> THEN rules ELSE <<Rule("on_track", <<>>)>>

(***************************************************************************)
(* Inputs of the drift functions                                           *)
(***************************************************************************)
\* longest check-in history, counted beyond the recent window
MaxExtra == 1

MaxCheckins == RecentWindow + MaxExtra

\* a Wednesday, 12:34:56.5, in the third week of the model's calendar
Wednesday == DateTime(16, 12, 34, 56, 500000)

\* Tuesday of the same week and Thursday of the week before
ThisWeekInstant == DateTime(15, 9, 0, 0, 0)

LastWeekInstant == DateTime(10, 18, 30, 0, 0)

\* what a check-in reports: did_minimum_action, friction, blocker given
Reports ==
    { [did_minimum_action |-> TRUE,  friction |-> 1, blocker |-> FALSE],
      [did_minimum_action |-> TRUE,  friction |-> 3, blocker |-> TRUE],
      [did_minimum_action |-> FALSE, friction |-> 2, blocker |-> TRUE],
      [did_minimum_action |-> FALSE, friction |-> 3, blocker |-> FALSE] }

Checkin(report, at) ==
    [created_at |-> at, did_minimum_action |-> report.did_minimum_action,
     friction |-> report.friction, blocker |-> report.blocker]

\* a history of l check-ins, the k newest of this week, the others of last week
History(l, r, k) ==
    [i \in 1..l |-> Checkin(r[i], IF i <= k THEN ThisWeekInstant
                                               ELSE LastWeekInstant)]

\* how many of l check-ins are of this week: none, the newest only, or all
ThisWeekSplits(l) == {0, Min(1, l), l}

DriftTargets == {3, 5}

NoStats == get_weekly_frequency_stats(<<>>, 0, Wednesday)

NoRates == local_rates(<<>>, 0, Wednesday)

NoPlan == [version |-> 0, frequency_per_week |-> 0, min_minutes |-> 0,
           time_window |-> "morning"]

NoMetrics == [drift_score |-> Rat(0, 1), avg_friction |-> Rat(0, 1),
              completion_rate |-> Rat(0, 1), minimum_action_rate |-> Rat(0, 1)]

NoChanges == [k \in {} |-> TRUE]

NoAdjustment == [changes |-> NoChanges, reason |-> ""]

\* the variables of the plan adjustment, unused by the drift functions
NoAdjustmentCall ==
    /\ current_plan = NoPlan
    /\ metrics = NoMetrics
    /\ recent_checkins = <<>>
    /\ adjustment = NoAdjustment

\* the variables of the drift functions before the call
NoDriftResult ==
    /\ freq_stats = NoStats
    /\ rates = NoRates
    /\ drift_score = Rat(0, 1)
    /\ drift_triggered = FALSE
    /\ other_score = Rat(0, 1)

\* the explaining functions before the call
NoExplanation ==
    /\ rules_applied = <<>>
    /\ suggestions = <<>>

\* current and created are ids of plan rows, 0 for none
NoRequest ==
    [op |-> "none", resolution_id |-> 0, status |-> 0, action_taken |-> "",
     changes |-> NoChanges, current |-> 0, created |-> 0,
     mirror_report_id |-> 0]

\* no row of any table was deleted
NoneDeleted ==
    [resolutions |-> {}, plans |-> {}, checkin_rows |-> {}, signals |-> {},
     mirror_reports |-> {}]

\* an empty database and no request
NoStore ==
    /\ time_window_required = TRUE
    /\ resolutions = <<>>
    /\ plans = <<>>
    /\ checkin_rows = <<>>
    /\ insight_actions = <<>>
    /\ request = NoRequest
    /\ inflight = <<>>
    /\ signals = <<>>
    /\ mirror_reports = <<>>
    /\ feedback = <<>>
    /\ deleted = NoneDeleted
    /\ foreign_keys_enforced = FALSE

\* drift_score in hundredths, as MetricsResponse carries it
NoDashboard == [drift_score |-> 0, total_checkins |-> 0,
                drift_triggered |-> FALSE]

\* no call outside create_checkin was made
\* no second call of the drift functions
NoSecondCall ==
    [now |-> Wednesday, stats |-> NoStats, score |-> Rat(0, 1),
     rules |-> <<>>]

\* the middleware before any request: _hits = defaultdict(list)
NoLimiter ==
    [at |-> 1, hits |-> <<>>, forwarded |-> <<>>, loaded |-> <<>>,
     key |-> <<>>, status |-> 0]

\* no call_gemini invocation
NoGemini ==
    [at |-> "idle", api_key |-> TRUE, client |-> TRUE, attempt |-> 0,
     attempts |-> <<>>, slept |-> <<>>, last_error |-> "None"]

NoAux ==
    /\ dashboard = NoDashboard
    /\ second_call = NoSecondCall
    /\ limiter = NoLimiter
    /\ gemini = NoGemini

(***************************************************************************)
(* Scoring a check-in history: create_checkin, lines 159-166               *)
(***************************************************************************)
Init ==
    /\ pc = "input"
    /\ \E l \in 0..MaxCheckins :
         \E r \in [1..l -> Reports], k \in ThisWeekSplits(l) :
           checkins = History(l, r, k)
    /\ target_frequency \in DriftTargets
    /\ now = Wednesday
    /\ other_frictions = <<>>
    /\ NoDriftResult
    /\ NoExplanation
    /\ NoStore
    /\ NoAux
    /\ NoAdjustmentCall

ScoreCheckins ==
    /\ pc = "input"
    /\ freq_stats' = get_weekly_frequency_stats(checkins, target_frequency, now)
    /\ rates' = local_rates(checkins, target_frequency, now)
    /\ drift_score' = compute_drift_score(checkins, target_frequency, now)
    /\ rules_applied' = get_drift_rules_applied(drift_score', checkins,
                                                target_frequency, now)
    /\ drift_triggered' = should_trigger_mirror(drift_score', Len(checkins))
    /\ pc' = "done"
    /\ UNCHANGED <<checkins, target_frequency, now, other_frictions,
                   other_score, current_plan, metrics, recent_checkins,
                   adjustment, suggestions>>
    /\ UNCHANGED storevars
    /\ UNCHANGED auxvars

Next == ScoreCheckins

Spec == Init /\ [][Next]_vars

(***************************************************************************)
(* Properties of the drift score                                           *)
(***************************************************************************)
\* the recent window as index set, and its counts, taken from the history
Window == 1..Min(Len(checkins), RecentWindow)

WindowDone == Cardinality({i \in Window : checkins[i].did_minimum_action})

WindowBlocked == Cardinality({i \in Window : checkins[i].blocker})

WindowFriction ==
    Cardinality({i \in Window : checkins[i].friction = 1})
    + 2 * Cardinality({i \in Window : checkins[i].friction = 2})
    + 3 * Cardinality({i \in Window : checkins[i].friction = 3})

\* 0.40*(1 - rate) + 0.25*(1 - done/n) + 0.20*((avg - 1)/2) + 0.15*(blocked/n)
\* for a weekly rate num/den, over the common denominator 200 * den * n
WeightedSum(num, den) ==
    LET n == Cardinality(Window)
    IN  Norm(80 * n * (den - num)
               + den * (50 * (n - WindowDone) + 20 * (WindowFriction - n)
                        + 30 * WindowBlocked),
             200 * den * n)

\* C1: compute_drift_score returns a value d with 0.0 <= d <= 1.0
DriftScoreInUnitInterval ==
    pc = "done" => RatLe(Rat(0, 1), drift_score) /\ RatLe(drift_score, Rat(1, 1))

\* C1 witness: a score strictly inside, one at 0 or one at 1 has been computed
DriftScoreComputed ==
    /\ pc = "done"
    /\ Len(checkins) > RecentWindow
    /\ RatLt(Rat(1, 2), drift_score)
    /\ RatLt(drift_score, Rat(1, 1))

\* C2 as stated: 0.0 for no check-ins, else the weighted sum over the first
\* n = min(len, 5) check-ins with the weekly rate exactly min(count/target, 1.0)
DriftUsesExactWeeklyRate ==
    pc = "done" =>
        IF checkins = <<>> THEN drift_score = Rat(0, 1)
        ELSE IF target_frequency <= 0 THEN drift_score = WeightedSum(0, 1)
        ELSE drift_score =
                 WeightedSum(Min(freq_stats.this_week_count, target_frequency),
                             target_frequency)

\* C2 amended: the weekly rate in the weighted sum is the two-decimal value
\* returned by get_weekly_frequency_stats, the nearest hundredth to
\* min(count/target, 1.0)
DriftUsesRoundedWeeklyRate ==
    pc = "done" =>
        IF checkins = <<>> THEN drift_score = Rat(0, 1)
        ELSE /\ drift_score = WeightedSum(freq_stats.this_week_rate, 100)
             /\ IF target_frequency <= 0 THEN freq_stats.this_week_rate = 0
                ELSE LET c == Min(freq_stats.this_week_count, target_frequency)
                         e == 100 * c - freq_stats.this_week_rate * target_frequency
                     IN  2 * e <= target_frequency /\ -2 * e <= target_frequency

\* C2 witness: a history longer than the window whose older check-in differs
\* from the recent ones, with a weekly rate that is not a whole hundredth
LongHistoryScored ==
    /\ pc = "done"
    /\ Len(checkins) > RecentWindow
    /\ \A i \in Window : checkins[i].did_minimum_action /\ checkins[i].friction = 1
    /\ ~checkins[Len(checkins)].did_minimum_action
    /\ target_frequency = 3
    /\ freq_stats.this_week_count = 1
    /\ freq_stats.this_week_rate = 33

\* C3: should_trigger_mirror is true iff drift > 0.4 and count >= 3
TriggerIffDriftAndCount ==
    pc = "done" =>
        /\ drift_triggered <=>
               (10 * drift_score.n > 4 * drift_score.d /\ Len(checkins) >= 3)
        /\ Len(checkins) < 3 => ~drift_triggered
        /\ 10 * drift_score.n <= 4 * drift_score.d => ~drift_triggered

\* C3 witness: a drift of exactly 0.4 over enough check-ins does not trigger
DriftAtThresholdNotTriggered ==
    /\ pc = "done"
    /\ Len(checkins) >= 3
    /\ drift_score = Rat(2, 5)
    /\ ~drift_triggered

(***************************************************************************)
(* The frequency tracker over histories of completed and missed check-ins  *)
(***************************************************************************)
MaxTarget == 19

\* default report of the request schema, did_minimum_action as given
DefaultReport(did) ==
    [did_minimum_action |-> did, friction |-> 2, blocker |-> FALSE]

InitFreq ==
    /\ pc = "input"
    /\ \E l \in 0..MaxCheckins : \E d \in [1..l -> BOOLEAN], k \in 0..l :
           checkins = History(l, [i \in 1..l |-> DefaultReport(d[i])], k)
    /\ target_frequency \in (-1)..MaxTarget
    /\ now = Wednesday
    /\ other_frictions = <<>>
    /\ NoDriftResult
    /\ NoExplanation
    /\ NoStore
    /\ NoAux
    /\ NoAdjustmentCall

WeeklyStats ==
    /\ pc = "input"
    /\ freq_stats' = get_weekly_frequency_stats(checkins, target_frequency, now)
    /\ rates' = local_rates(checkins, target_frequency, now)
    /\ pc' = "done"
    /\ UNCHANGED <<checkins, target_frequency, now, drift_score,
                   drift_triggered, other_frictions, other_score,
                   current_plan, metrics, recent_checkins, adjustment>>
    /\ UNCHANGED explainvars
    /\ UNCHANGED storevars
    /\ UNCHANGED auxvars

NextFreq == WeeklyStats

SpecFreq == InitFreq /\ [][NextFreq]_vars

\* check-ins of the history that completed the minimum action in the week
\* of the call, and in the week before
DoneThisWeek ==
    {i \in 1..Len(checkins) :
        /\ checkins[i].did_minimum_action
        /\ DtLe(this_week_start(now), checkins[i].created_at)}

DoneLastWeek ==
    {i \in 1..Len(checkins) :
        /\ checkins[i].did_minimum_action
        /\ DtLe(last_week_start(now), checkins[i].created_at)
        /\ DtLt(checkins[i].created_at, this_week_start(now))}

\* C5: for target > 0 the weekly rate is min(count/target, 1.0) over the
\* week's check-ins with did_minimum_action, never above 1.0 and exactly 1.0
\* from count >= target on; for target <= 0 it is 0.0
WeeklyRateCapped ==
    (pc = "done" /\ checkins # <<>>) =>
        LET c == Cardinality(DoneThisWeek)
        IN  /\ freq_stats.this_week_count = c
            /\ freq_stats.this_week_rate <= 100
            /\ RatLe(rates.this_week, Rat(1, 1))
            /\ IF target_frequency > 0
               THEN /\ rates.this_week.n * target_frequency
                          = Min(c, target_frequency) * rates.this_week.d
                    /\ c >= target_frequency =>
                          /\ RatEq(rates.this_week, Rat(1, 1))
                          /\ freq_stats.this_week_rate = 100
               ELSE /\ RatEq(rates.this_week, Rat(0, 1))
                    /\ freq_stats.this_week_rate = 0

\* C5 witness: target 5 with 6 qualifying check-ins and a miss this week
SixOfFiveThisWeek ==
    /\ pc = "done"
    /\ target_frequency = 5
    /\ Cardinality(DoneThisWeek) = 6
    /\ freq_stats.this_week_rate = 100

\* Double arithmetic on the returned two-decimal rates that differ by exactly
\* 0.10: the lower rate r (in hundredths) for which (r + 10)/100 > r/100 + 0.1
ReturnedTieExceeds == {24, 35, 36, 57, 58, 69, 70, 71, 82, 83}

\* and for which r/100 < (r + 10)/100 - 0.1
ReturnedTieBelow ==
    {4, 18, 24, 29, 30, 41, 42, 43, 44, 45, 46, 57, 58, 69, 70, 71, 82, 83}

\* C7 as stated: the trend follows from the rates the function returns
TrendMatchesReturnedRates ==
    (pc = "done" /\ checkins # <<>>) =>
        LET r1 == freq_stats.this_week_rate
            r2 == freq_stats.last_week_rate
            up == IF r1 - r2 = 10 THEN r2 \in ReturnedTieExceeds ELSE r1 - r2 > 10
            down == IF r2 - r1 = 10 THEN r1 \in ReturnedTieBelow ELSE r2 - r1 > 10
        IN  /\ freq_stats.trend = "improving" <=> up
            /\ freq_stats.trend = "declining" <=> (~up /\ down)
            /\ freq_stats.trend = "stable" <=> (~up /\ ~down)

\* C7 amended: the trend compares the rates min(count/target, 1.0) before
\* they are rounded: improving if this week exceeds last week by more than a
\* tenth, declining if it is lower by more than a tenth, stable inside the
\* band; a difference of exactly one tenth is decided by double arithmetic
TrendMatchesUnroundedRates ==
    (pc = "done" /\ checkins # <<>>) =>
        LET t == target_frequency
            a == Min(Cardinality(DoneThisWeek), t)
            b == Min(Cardinality(DoneLastWeek), t)
        IN  IF t <= 0 THEN freq_stats.trend = "stable"
            ELSE /\ freq_stats.trend \in {"improving", "declining", "stable"}
                 /\ 10 * (a - b) > t => freq_stats.trend = "improving"
                 /\ 10 * (b - a) > t => freq_stats.trend = "declining"
                 /\ (10 * (a - b) < t /\ 10 * (b - a) < t) =>
                        freq_stats.trend = "stable"
                 /\ 10 * (a - b) = t => freq_stats.trend # "declining"
                 /\ 10 * (b - a) = t => freq_stats.trend # "improving"

\* C7 witness: target 19 with 4 completed check-ins this week and 2 last week
\* is improving although the returned rates 0.21 and 0.11 differ by 0.10
ImprovingInsideReturnedBand ==
    /\ pc = "done"
    /\ target_frequency = 19
    /\ freq_stats.this_week_rate = 21
    /\ freq_stats.last_week_rate = 11
    /\ freq_stats.trend = "improving"

(***************************************************************************)
(* The week windows at their boundaries                                    *)
(***************************************************************************)
\* longest history in the boundary cases
MaxWeekLen == 2

MondayMidnight == DateTime(14, 0, 0, 0, 0)

\* the instants of the call: Monday midnight, within its first second,
\* midweek, and the last microsecond of Sunday
WeekNows ==
    { MondayMidnight, DateTime(14, 0, 0, 0, 750000), Wednesday,
      DateTime(20, 23, 59, 59, 999999) }

\* check-in instants around the start of this week and of last week
WeekInstants ==
    { DateTime(6, 23, 59, 59, 999999), DateTime(7, 0, 0, 0, 0),
      DateTime(7, 0, 0, 0, 250000), DateTime(13, 23, 59, 59, 999999),
      MondayMidnight, DateTime(14, 0, 0, 0, 250000), ThisWeekInstant }

InitWeek ==
    /\ pc = "input"
    /\ now \in WeekNows
    /\ \E l \in 0..MaxWeekLen :
         \E d \in [1..l -> BOOLEAN], at \in [1..l -> WeekInstants] :
           /\ \A i \in 1..l : DtLe(at[i], now)
           /\ checkins = [i \in 1..l |-> Checkin(DefaultReport(d[i]), at[i])]
    /\ target_frequency = 3
    /\ other_frictions = <<>>
    /\ NoDriftResult
    /\ NoExplanation
    /\ NoStore
    /\ NoAux
    /\ NoAdjustmentCall

SpecWeek == InitWeek /\ [][NextFreq]_vars

\* Monday 00:00:00.000000 of the week of the call
MondayOf(t) ==
    [secs |-> t.secs - (t.secs % (7 * SecondsPerDay)), us |-> 0]

\* C6: a qualifying check-in is counted in this week iff t >= Monday 00:00:00
\* of the week of the call, in last week iff Monday - 7 days <= t < Monday
WeekWindowsStartAtMonday ==
    (pc = "done" /\ checkins # <<>>) =>
        LET monday == MondayOf(now)
            before == [secs |-> monday.secs - 7 * SecondsPerDay, us |-> 0]
            done == {i \in 1..Len(checkins) : checkins[i].did_minimum_action}
        IN  /\ freq_stats.this_week_count =
                   Cardinality({i \in done : DtLe(monday, checkins[i].created_at)})
            /\ freq_stats.last_week_count =
                   Cardinality({i \in done :
                       /\ DtLe(before, checkins[i].created_at)
                       /\ DtLt(checkins[i].created_at, monday)})

(***************************************************************************)
(* Two histories that differ in the friction of the recent window          *)
(***************************************************************************)
PairReports ==
    { [did_minimum_action |-> TRUE,  friction |-> 1, blocker |-> FALSE],
      [did_minimum_action |-> FALSE, friction |-> 2, blocker |-> TRUE] }

\* the history with the friction of its first Len(f) check-ins replaced
WithFrictions(cs, f) ==
    [i \in 1..Len(cs) |->
        IF i <= Len(f) THEN [cs[i] EXCEPT !.friction = f[i]] ELSE cs[i]]

InitFriction ==
    /\ pc = "input"
    /\ \E l \in 1..MaxCheckins :
         \E r \in [1..l -> PairReports], k \in {0, l},
            f \in [1..Min(l, RecentWindow) -> 1..3] :
           /\ checkins = History(l, r, k)
           /\ other_frictions = f
    /\ target_frequency = 3
    /\ now = Wednesday
    /\ NoDriftResult
    /\ NoExplanation
    /\ NoStore
    /\ NoAux
    /\ NoAdjustmentCall

ScorePair ==
    /\ pc = "input"
    /\ drift_score' = compute_drift_score(checkins, target_frequency, now)
    /\ other_score' = compute_drift_score(WithFrictions(checkins, other_frictions),
                                          target_frequency, now)
    /\ pc' = "done"
    /\ UNCHANGED <<checkins, target_frequency, now, freq_stats, rates,
                   drift_triggered, other_frictions, current_plan, metrics,
                   recent_checkins, adjustment>>
    /\ UNCHANGED explainvars
    /\ UNCHANGED storevars
    /\ UNCHANGED auxvars

NextFriction == ScorePair

SpecFriction == InitFriction /\ [][NextFriction]_vars

\* a common denominator of all drift scores: 200 * 100 * lcm(1..5)
DriftScale == 200 * 100 * 60

DriftUnits(x) == x.n * (DriftScale \div x.d)

RECURSIVE SumSeq(_)
SumSeq(f) == IF f = <<>> THEN 0 ELSE Head(f) + SumSeq(Tail(f))

\* C4: a strictly higher average friction in the recent window, all else
\* equal, gives a strictly greater drift score, or an equal one clamped at 1.0
HigherFrictionHigherDrift ==
    (pc = "done" /\ SumSeq(other_frictions) > WindowFriction) =>
        \/ DriftUnits(drift_score) < DriftUnits(other_score)
        \/ (drift_score = Rat(1, 1) /\ other_score = Rat(1, 1))

\* C4 witness: a history longer than the window scored against the same
\* history with one more friction point in the window
FrictionRaisedByOne ==
    /\ pc = "done"
    /\ Len(checkins) > RecentWindow
    /\ SumSeq(other_frictions) = WindowFriction + 1
    /\ DriftUnits(drift_score) < DriftUnits(other_score)

(***************************************************************************)
(* compute_plan_adjustment                                                 *)
(***************************************************************************)
KeepGoing == "Keep going - small steps compound over time."

MinimumActionReason == "We noticed the starting point might need adjustment."

DurationReason == "We adjusted the session length."

TimeWindowReason == "We shifted the suggested time."

FrequencyReason == "We adjusted the expectation."

time_windows == <<"morning", "afternoon", "evening", "night">>

\* time_windows.index(w) if w in time_windows else 0
current_idx(w) ==
    IF \E i \in 1..Len(time_windows) : time_windows[i] = w
    THEN (CHOOSE i \in 1..Len(time_windows) : time_windows[i] = w) - 1
    ELSE 0

\* a plausible slip: the last window has no successor and is kept
next_window_unwrapped(w) == time_windows[Min(current_idx(w) + 1, 3) + 1]

\* time_windows[(current_idx + 1) % len(time_windows)]
next_window(w) == time_windows[((current_idx(w) + 1) % Len(time_windows)) + 1]

\* a plausible slip: a drift of exactly 0.3 passes the guard
insufficient_signal_strict(score, recent) ==
    RatLt(score, Rat(3, 10)) \/ Len(recent) < 3

\* drift_score <= 0.3 or len(recent_checkins) < 3
insufficient_signal(score, recent) ==
    RatLe(score, Rat(3, 10)) \/ Len(recent) < 3

\* a plausible slip: the threshold of the completion rate, 0.5
minimum_action_low_half(rate) == RatLt(rate, Rat(1, 2))

\* minimum_action_rate < 0.6
minimum_action_low(rate) == RatLt(rate, Rat(6, 10))

\* len([c for c in recent_checkins if not c.did_minimum_action])
missed_count(recent) == Len(recent) - CountDone(recent)

\* a plausible slip: the reduction of the duration without its floor
new_mins_unfloored(plan) == plan.min_minutes - 5

\* max(5, current_plan.min_minutes - 5)
new_mins(plan) == Max(5, plan.min_minutes - 5)

\* max(1, current_plan.frequency_per_week - 1)
new_freq(plan) == Max(1, plan.frequency_per_week - 1)

\* a plausible slip: the changes of all branches whose condition holds are
\* collected in the one dict before returning
compute_plan_adjustment_collecting(plan, score, avg_friction, completion_rate, minimum_action_rate, recent) ==
    LET duration == IF RatLe(Rat(5, 2), avg_friction)
                       /\ new_mins(plan) # plan.min_minutes
                    THEN "min_minutes" :> new_mins(plan) ELSE <<>>
        window == IF Len(recent) >= 3 /\ missed_count(recent) >= 2
                  THEN "time_window" :> next_window(plan.time_window) ELSE <<>>
        frequency == IF RatLt(completion_rate, Rat(1, 2))
                        /\ new_freq(plan) # plan.frequency_per_week
                     THEN "frequency_per_week" :> new_freq(plan) ELSE <<>>
        all == duration @@ window @@ frequency
    IN  IF insufficient_signal(score, recent)
        THEN [changes |-> <<>>, reason |-> KeepGoing]
        ELSE IF minimum_action_low(minimum_action_rate)
        THEN [changes |-> "simplify_minimum_action" :> TRUE,
              reason |-> MinimumActionReason]
        ELSE IF DOMAIN all = {} THEN [changes |-> <<>>, reason |-> KeepGoing]
        ELSE [changes |-> all, reason |-> DurationReason]

compute_plan_adjustment(plan, score, avg_friction, completion_rate, minimum_action_rate, recent) ==
    LET new_window == next_window(plan.time_window)
    IN  IF insufficient_signal(score, recent)
        THEN [changes |-> <<>>, reason |-> KeepGoing]
        ELSE IF minimum_action_low(minimum_action_rate)
        THEN [changes |-> "simplify_minimum_action" :> TRUE,
              reason |-> MinimumActionReason]
        ELSE IF RatLe(Rat(5, 2), avg_friction)
                /\ new_mins(plan) # plan.min_minutes
        THEN [changes |-> "min_minutes" :> new_mins(plan),
              reason |-> DurationReason]
        ELSE IF Len(recent) >= 3 /\ missed_count(recent) >= 2
        THEN [changes |-> "time_window" :> new_window, reason |-> TimeWindowReason]
        ELSE IF RatLt(completion_rate, Rat(1, 2))
                /\ new_freq(plan) # plan.frequency_per_week
        THEN [changes |-> "frequency_per_week" :> new_freq(plan),
              reason |-> FrequencyReason]
        ELSE [changes |-> <<>>, reason |-> KeepGoing]

\* longest list of recent check-ins handed to the adjustment
MaxRecent == 4

DriftInputs == {Rat(3, 10), Rat(31, 100), Rat(1, 1)}

FrictionInputs == {Rat(2, 1), Rat(5, 2), Rat(3, 1)}

CompletionInputs == {Rat(49, 100), Rat(1, 2)}

MinimumActionInputs == {Rat(59, 100), Rat(6, 10)}

\* min_minutes as create_resolution accepts it (1..120), around the floor
MinuteInputs == {3, 5, 10, 15}

FrequencyInputs == {1, 3}

\* Python's None, the value of an attribute that was never set
None == "None"

WindowInputs == {"morning", "afternoon", "evening", "night", "anytime", None}

InitAdjust ==
    /\ pc = "input"
    /\ \E m \in MinuteInputs, f \in FrequencyInputs, w \in WindowInputs :
           current_plan = [version |-> 1, frequency_per_week |-> f,
                           min_minutes |-> m, time_window |-> w]
    /\ \E d \in DriftInputs, a \in FrictionInputs, c \in CompletionInputs,
          r \in MinimumActionInputs :
           metrics = [drift_score |-> d, avg_friction |-> a,
                      completion_rate |-> c, minimum_action_rate |-> r]
    /\ \E l \in 0..MaxRecent : \E d \in [1..l -> BOOLEAN] :
           recent_checkins =
               [i \in 1..l |-> Checkin(DefaultReport(d[i]), ThisWeekInstant)]
    /\ adjustment = NoAdjustment
    /\ checkins = <<>>
    /\ target_frequency = 0
    /\ now = Wednesday
    /\ other_frictions = <<>>
    /\ NoDriftResult
    /\ NoExplanation
    /\ NoStore
    /\ NoAux

AdjustPlan ==
    /\ pc = "input"
    /\ adjustment' = compute_plan_adjustment(current_plan, metrics.drift_score,
                         metrics.avg_friction, metrics.completion_rate,
                         metrics.minimum_action_rate, recent_checkins)
    /\ pc' = "done"
    /\ UNCHANGED <<checkins, target_frequency, now, freq_stats, rates,
                   drift_score, drift_triggered, other_frictions, other_score,
                   current_plan, metrics, recent_checkins>>
    /\ UNCHANGED explainvars
    /\ UNCHANGED storevars
    /\ UNCHANGED auxvars

NextAdjust == AdjustPlan

SpecAdjust == InitAdjust /\ [][NextAdjust]_vars

\* the guard of the adjustment passes: drift > 0.3 and at least 3 check-ins
GuardPasses ==
    /\ pc = "done"
    /\ 10 * metrics.drift_score.n > 3 * metrics.drift_score.d
    /\ Len(recent_checkins) >= 3

Keys == DOMAIN adjustment.changes

Missed == Cardinality({i \in 1..Len(recent_checkins) :
                          ~recent_checkins[i].did_minimum_action})

FrictionHigh == 2 * metrics.avg_friction.n >= 5 * metrics.avg_friction.d

MinimumActionLow ==
    10 * metrics.minimum_action_rate.n < 6 * metrics.minimum_action_rate.d

CompletionLow == 2 * metrics.completion_rate.n < metrics.completion_rate.d

\* C8: drift <= 0.3 or fewer than 3 recent check-ins gives the empty change
\* set with the neutral rationale, whatever the other metrics
GuardKeepsPlan ==
    (pc = "done" /\ ~GuardPasses) =>
        Keys = {} /\ adjustment.reason = KeepGoing

\* C8 witness: drift exactly 0.3 with enough misses and high friction
GuardAtThreshold ==
    /\ pc = "done"
    /\ metrics.drift_score = Rat(3, 10)
    /\ Len(recent_checkins) >= 3
    /\ Missed >= 2
    /\ MinimumActionLow
    /\ FrictionHigh
    /\ Keys = {}

\* C9: past the guard, minimum_action_rate < 0.6 returns exactly
\* {simplify_minimum_action: true}, whatever friction, misses and completion
MinimumActionPreempts ==
    (GuardPasses /\ MinimumActionLow) =>
        /\ Keys = {"simplify_minimum_action"}
        /\ adjustment.changes["simplify_minimum_action"] = TRUE

\* C9 witness: every lower branch would have fired as well
MinimumActionBeforeOthers ==
    /\ GuardPasses
    /\ MinimumActionLow
    /\ FrictionHigh
    /\ current_plan.min_minutes > 5
    /\ Missed >= 2
    /\ CompletionLow
    /\ Keys = {"simplify_minimum_action"}

\* C10 as stated: the first branch whose condition holds decides, and no
\* change of a lower branch appears when a higher condition holds
FirstConditionDecides ==
    GuardPasses =>
        /\ Cardinality(Keys) <= 1
        /\ IF MinimumActionLow THEN Keys = {"simplify_minimum_action"}
           ELSE IF FrictionHigh THEN Keys \subseteq {"min_minutes"}
           ELSE IF Missed >= 2 THEN Keys = {"time_window"}
           ELSE IF CompletionLow THEN Keys \subseteq {"frequency_per_week"}
           ELSE Keys = {}

\* C10 amended: the first branch that yields a change decides; Duration
\* with max(5, min_minutes - 5) equal to min_minutes and Frequency with
\* max(1, frequency_per_week - 1) equal to frequency_per_week yield none and
\* fall through to the next branch
FirstChangeDecides ==
    GuardPasses =>
        LET duration == FrictionHigh /\ current_plan.min_minutes # 5
            frequency == CompletionLow /\ current_plan.frequency_per_week # 1
        IN  /\ Cardinality(Keys) <= 1
            /\ IF MinimumActionLow THEN Keys = {"simplify_minimum_action"}
               ELSE IF duration THEN Keys = {"min_minutes"}
               ELSE IF Missed >= 2 THEN Keys = {"time_window"}
               ELSE IF frequency THEN Keys = {"frequency_per_week"}
               ELSE Keys = {}

\* C10 witness: high friction at the floor of 5 minutes with two misses
\* shifts the time window
DurationAtFloorFallsThrough ==
    /\ GuardPasses
    /\ ~MinimumActionLow
    /\ FrictionHigh
    /\ current_plan.min_minutes = 5
    /\ Missed >= 2
    /\ Keys = {"time_window"}

\* C11: min_minutes is emitted only as max(5, current - 5), never below 5 and
\* never equal to the current value; frequency_per_week only as
\* max(1, current - 1), never below 1 and never equal to the current value
FloorsAndNoOpSuppression ==
    pc = "done" =>
        /\ "min_minutes" \in Keys =>
              /\ adjustment.changes["min_minutes"]
                   = Max(5, current_plan.min_minutes - 5)
              /\ adjustment.changes["min_minutes"] >= 5
              /\ adjustment.changes["min_minutes"] # current_plan.min_minutes
        /\ "frequency_per_week" \in Keys =>
              /\ adjustment.changes["frequency_per_week"]
                   = Max(1, current_plan.frequency_per_week - 1)
              /\ adjustment.changes["frequency_per_week"] >= 1
              /\ adjustment.changes["frequency_per_week"]
                   # current_plan.frequency_per_week
        /\ (FrictionHigh /\ current_plan.min_minutes = 5) =>
              "min_minutes" \notin Keys
        /\ (CompletionLow /\ current_plan.frequency_per_week = 1) =>
              "frequency_per_week" \notin Keys

\* C11 witness: a plan below the floor of 5 minutes with high friction gets
\* min_minutes 5, the floor and not 3 - 5
DurationFlooredAtFive ==
    /\ GuardPasses
    /\ ~MinimumActionLow
    /\ FrictionHigh
    /\ current_plan.min_minutes = 3
    /\ Keys = {"min_minutes"}
    /\ adjustment.changes["min_minutes"] = 5

\* the cycle morning -> afternoon -> evening -> night -> morning
Successor(w) ==
    CASE w = "morning" -> "afternoon"
      [] w = "afternoon" -> "evening"
      [] w = "evening" -> "night"
      [] w = "night" -> "morning"
      [] OTHER -> "afternoon"

ValidWindows == {"morning", "afternoon", "evening", "night"}

\* C12: when the Time Window branch fires the proposal is the successor of
\* the current window in the cycle, so it differs from a valid current
\* window and four rotations return to it; an unknown or missing window is
\* taken as index 0 and the proposal is afternoon
TimeWindowRotates ==
    (pc = "done" /\ "time_window" \in Keys) =>
        LET w == current_plan.time_window
            proposed == adjustment.changes["time_window"]
        IN  /\ Keys = {"time_window"}
            /\ proposed = Successor(w)
            /\ proposed \in ValidWindows
            /\ w \in ValidWindows =>
                  /\ proposed # w
                  /\ next_window(next_window(next_window(proposed))) = w
            /\ w \notin ValidWindows => proposed = "afternoon"

\* C12 witness: the last window of the cycle wraps to the first
NightWrapsToMorning ==
    /\ GuardPasses
    /\ current_plan.time_window = "night"
    /\ Keys = {"time_window"}
    /\ adjustment.changes["time_window"] = "morning"

\* the tags of rules_applied, in order
RuleTags == [i \in 1..Len(rules_applied) |-> rules_applied[i].tag]

\* the tag when its condition holds, nothing otherwise
TagIf(cond, tag) == IF cond THEN <<tag>> ELSE <<>>

\* days between now and the newest check-in
DaysSinceLast ==
    LET newest == CHOOSE i \in 1..Len(checkins) :
                      \A j \in 1..Len(checkins) :
                          DtLe(checkins[j].created_at, checkins[i].created_at)
    IN  DaysBetween(now, checkins[newest].created_at)

\* the tags the rules give for the scored history, in the fixed order
ExpectedTags ==
    LET n == Cardinality(Window)
        this_week == Min(Cardinality(DoneThisWeek), target_frequency)
        last_week == Min(Cardinality(DoneLastWeek), target_frequency)
    IN  TagIf(2 * this_week < target_frequency, "below_weekly_target")
        \o TagIf(10 * this_week < 10 * last_week - target_frequency,
                 "declining_frequency")
        \o TagIf(DaysSinceLast >= 3, "gap_detected")
        \o TagIf(2 * WindowDone < n, "low_completion")
        \o TagIf(WindowFriction > 2 * n, "high_friction")
        \o TagIf(WindowBlocked >= 2, "repeated_blockers")
        \o TagIf(10 * drift_score.n > 6 * drift_score.d, "significant_drift")
        \o TagIf(10 * drift_score.n > 4 * drift_score.d
                   /\ 10 * drift_score.n <= 6 * drift_score.d,
                 "moderate_drift")

\* C20: an empty history gives exactly no_checkins; otherwise the tags are,
\* in the fixed order and each present iff its condition holds,
\* below_weekly_target, declining_frequency, gap_detected, low_completion,
\* high_friction, repeated_blockers and one of significant_drift (> 0.6) or
\* moderate_drift (> 0.4); on_track iff none fired; never an empty list
RulesMatchConditions ==
    pc = "done" =>
        /\ rules_applied # <<>>
        /\ (RuleTags = <<"no_checkins">>) <=> (checkins = <<>>)
        /\ checkins # <<>> =>
              /\ (RuleTags = <<"on_track">>) <=> (ExpectedTags = <<>>)
              /\ ExpectedTags # <<>> => RuleTags = ExpectedTags

\* C20 witness: an average friction of exactly 2 over the window does not
\* count as high while other rules fire
FrictionTwoNotHigh ==
    /\ pc = "done"
    /\ Len(checkins) >= 3
    /\ WindowFriction = 2 * Cardinality(Window)
    /\ "low_completion" \in { RuleTags[i] : i \in 1..Len(RuleTags) }
    /\ "high_friction" \notin { RuleTags[i] : i \in 1..Len(RuleTags) }

(***************************************************************************)
(* generate_actionable_suggestions                                         *)
(***************************************************************************)
Suggestion(type, changes) == [type |-> type, changes |-> changes]

\* a plausible slip: the list is returned whole
top_suggestions_untruncated(all) == all

\* suggestions[:3]
top_suggestions(all) == SubSeq(all, 1, Min(Len(all), 3))

\* plan = NoPlan stands for current_plan = None
generate_actionable_suggestions(cs, plan, score, stats) ==
    IF cs = <<>> \/ plan = NoPlan THEN <<>>
    ELSE LET recent == SubSeq(cs, 1, Min(Len(cs), 5))
             n == Len(recent)
             avg_friction == Rat(SumFriction(recent), n)
             completion_rate == Rat(CountDone(recent), n)
             missed == n - CountDone(recent)
             all ==
                 (IF RatLe(Rat(5, 2), avg_friction)
                  THEN <<Suggestion("reduce_duration",
                                    "min_minutes" :> new_mins(plan))>>
                  ELSE <<>>)
                 \o (IF RatLt(completion_rate, Rat(1, 2)) /\ n >= 3
                     THEN <<Suggestion("simplify_action", <<>>)>> ELSE <<>>)
                 \o (IF stats.this_week_rate < 60 /\ stats.trend = "declining"
                     THEN <<Suggestion("reduce_frequency",
                                       "frequency_per_week" :> new_freq(plan))>>
                     ELSE <<>>)
                 \o (IF missed >= 2
                     THEN <<Suggestion("change_time",
                               "time_window" :> next_window(plan.time_window))>>
                     ELSE <<>>)
                 \o (IF RatLt(Rat(6, 10), score) /\ RatLe(Rat(5, 2), avg_friction)
                     THEN <<Suggestion("recovery_mode",
                               ("min_minutes" :> 5)
                               @@ ("frequency_per_week" :> new_freq(plan)))>>
                     ELSE <<>>)
         IN  top_suggestions(all)

\* longest history handed to the suggestions
MaxSuggest == 4

SuggestReports ==
    { [did_minimum_action |-> d, friction |-> f, blocker |-> FALSE] :
          d \in BOOLEAN, f \in {2, 3} }

\* current_plan of create_checkin: a plan row, or None
SuggestPlans ==
    {NoPlan} \cup
    { [version |-> 1, frequency_per_week |-> f, min_minutes |-> m,
       time_window |-> w] : f \in {1, 3}, m \in {5, 15},
                            w \in {"night", None} }

InitSuggest ==
    /\ pc = "input"
    /\ \E l \in 0..MaxSuggest : \E r \in [1..l -> SuggestReports] :
           checkins = [i \in 1..l |-> Checkin(r[i], ThisWeekInstant)]
    /\ current_plan \in SuggestPlans
    /\ drift_score \in {Rat(6, 10), Rat(61, 100)}
    /\ \E rate \in {59, 60}, trend \in {"declining", "stable"} :
           freq_stats = [NoStats EXCEPT !.this_week_rate = rate,
                                        !.trend = trend]
    /\ target_frequency = 0
    /\ now = Wednesday
    /\ other_frictions = <<>>
    /\ rates = NoRates
    /\ drift_triggered = TRUE
    /\ other_score = Rat(0, 1)
    /\ metrics = NoMetrics
    /\ recent_checkins = <<>>
    /\ adjustment = NoAdjustment
    /\ NoExplanation
    /\ NoStore
    /\ NoAux

Suggest ==
    /\ pc = "input"
    /\ suggestions' = generate_actionable_suggestions(checkins, current_plan,
                                                      drift_score, freq_stats)
    /\ pc' = "done"
    /\ UNCHANGED <<checkins, target_frequency, now, freq_stats, rates,
                   drift_score, drift_triggered, other_frictions, other_score,
                   current_plan, metrics, recent_checkins, adjustment,
                   rules_applied>>
    /\ UNCHANGED storevars
    /\ UNCHANGED auxvars

NextSuggest == Suggest

SpecSuggest == InitSuggest /\ [][NextSuggest]_vars

SuggestionTypes == [i \in 1..Len(suggestions) |-> suggestions[i].type]

TypeSet == { suggestions[i].type : i \in 1..Len(suggestions) }

First3(seq) == SubSeq(seq, 1, Min(Len(seq), 3))

HighFriction == 2 * WindowFriction >= 5 * Cardinality(Window)

LowCompletion ==
    2 * WindowDone < Cardinality(Window) /\ Cardinality(Window) >= 3

BelowTargetDeclining ==
    freq_stats.this_week_rate < 60 /\ freq_stats.trend = "declining"

RepeatedMisses == Cardinality(Window) - WindowDone >= 2

HighDrift == 10 * drift_score.n > 6 * drift_score.d /\ HighFriction

Called == pc = "done" /\ checkins # <<>> /\ current_plan # NoPlan

\* C18 as stated: at most 3 suggestions, the first that fire among duration
\* reduction, simplify-minimum-action, frequency reduction and recovery mode,
\* and no other type
FirstThreeOfFour ==
    Called =>
        /\ Len(suggestions) <= 3
        /\ SuggestionTypes =
              First3(TagIf(HighFriction, "reduce_duration")
                     \o TagIf(LowCompletion, "simplify_action")
                     \o TagIf(BelowTargetDeclining, "reduce_frequency")
                     \o TagIf(HighDrift, "recovery_mode"))

\* C18 amended: at most 3 suggestions, the first that fire in the order
\* reduce_duration, simplify_action, reduce_frequency, change_time (two or
\* more misses in the recent window), recovery_mode
FirstThreeOfFive ==
    /\ (pc = "done" /\ ~Called) => suggestions = <<>>
    /\ Called =>
        /\ Len(suggestions) <= 3
        /\ SuggestionTypes =
              First3(TagIf(HighFriction, "reduce_duration")
                     \o TagIf(LowCompletion, "simplify_action")
                     \o TagIf(BelowTargetDeclining, "reduce_frequency")
                     \o TagIf(RepeatedMisses, "change_time")
                     \o TagIf(HighDrift, "recovery_mode"))

\* C18 witness: all five fire and the last two are cut off
FiveFireThreeReturned ==
    /\ Called
    /\ HighFriction /\ LowCompletion /\ BelowTargetDeclining
    /\ RepeatedMisses /\ HighDrift
    /\ SuggestionTypes
         = <<"reduce_duration", "simplify_action", "reduce_frequency">>

\* C19 as stated: reduce_duration only with avg friction >= 2.5 and
\* min_minutes > 5, proposing a different value; reduce_frequency only with
\* weekly rate < 0.6, declining trend and frequency_per_week > 1, proposing a
\* different value
NoNoOpSuggestions ==
    Called =>
        \A i \in 1..Len(suggestions) :
            /\ suggestions[i].type = "reduce_duration" =>
                  /\ HighFriction
                  /\ current_plan.min_minutes > 5
                  /\ suggestions[i].changes["min_minutes"]
                       # current_plan.min_minutes
            /\ suggestions[i].type = "reduce_frequency" =>
                  /\ BelowTargetDeclining
                  /\ current_plan.frequency_per_week > 1
                  /\ suggestions[i].changes["frequency_per_week"]
                       # current_plan.frequency_per_week

(***************************************************************************)
(* The store and the request handlers working on it.                       *)
(*                                                                         *)
(* Tables are sequences of rows, a row's id being its index.  The routes   *)
(* build Plan rows without a time_window (resolutions.py:25, 76, 132),     *)
(* while models.py:32 declares the column NOT NULL without default.        *)
(* init_db creates missing tables only, so whether the plans table in use  *)
(* rejects such a row is a property of the database: time_window_required. *)
(***************************************************************************)
\* most resolutions, highest plan version, most check-ins and most insight
\* actions the handlers are followed to
MaxResolutions == 1

MaxVersion == 3

MaxStoreCheckins == 2

MaxInsightActions == 1

DemoTitle == "Meditate daily for mental clarity"

\* the locals of create_checkin do not outlive the request
NoCheckinLocals ==
    /\ checkins' = <<>>
    /\ target_frequency' = 0
    /\ freq_stats' = NoStats
    /\ rates' = NoRates
    /\ drift_score' = Rat(0, 1)
    /\ drift_triggered' = FALSE
    /\ rules_applied' = <<>>
    /\ suggestions' = <<>>
    /\ current_plan' = NoPlan
    /\ metrics' = NoMetrics
    /\ recent_checkins' = <<>>
    /\ adjustment' = NoAdjustment

PlanRow(r, v, f, m, w, step) ==
    [resolution_id |-> r, version |-> v, frequency_per_week |-> f,
     min_minutes |-> m, time_window |-> w, recovery_step |-> step]

\* db.commit() of a new Plan row succeeds; IntegrityError otherwise
PlanAccepted(row) == ~(time_window_required /\ row.time_window = None)

\* db.query(Plan).filter(Plan.resolution_id == r)
PlansOf(r) ==
    {i \in DOMAIN plans \ deleted.plans : plans[i].resolution_id = r}

\* .order_by(Plan.version.desc()).first(): the rows that can come first
FirstByVersionDesc(r) ==
    {i \in PlansOf(r) :
        \A j \in PlansOf(r) : plans[j].version <= plans[i].version}

\* ids the query for the current plan can return, 0 for None
CurrentPlanIds(r) == IF PlansOf(r) = {} THEN {0} ELSE FirstByVersionDesc(r)

\* dict.get(key, default)
Get(dict, key, default) == IF key \in DOMAIN dict THEN dict[key] ELSE default

RECURSIVE Reverse(_)
Reverse(seq) ==
    IF seq = <<>> THEN <<>> ELSE Append(Reverse(Tail(seq)), Head(seq))

RowOf(r, row) == row.resolution_id = r

\* db.query(Checkin).filter(resolution_id == r).order_by(created_at.desc()):
\* a resolution's rows are inserted with growing created_at
CheckinsOf(rows, r) ==
    Reverse(SelectSeq(rows, LAMBDA row : RowOf(r, row)))

Response(op, r, status, action, changes, current, created) ==
    [op |-> op, resolution_id |-> r, status |-> status,
     action_taken |-> action, changes |-> changes, current |-> current,
     created |-> created, mirror_report_id |-> 0]

\* the response to a request that named a mirror report
ForMirror(response, m) == [response EXCEPT !.mirror_report_id = m]

\* db.query(Resolution).filter(Resolution.id == r).first() finds a row
ResolutionExists(r) == r \in DOMAIN resolutions \ deleted.resolutions

\* db.query(MirrorReport).filter(MirrorReport.id == m).first() finds a row
MirrorExists(m) == m \in DOMAIN mirror_reports \ deleted.mirror_reports

\* request bodies ResolutionCreate lets through (1..7 per week, 1..120 min)
ResolutionData ==
    { [title |-> "Read every day", frequency_per_week |-> 5,
       min_minutes |-> 15],
      [title |-> "Read every day", frequency_per_week |-> 1,
       min_minutes |-> 3] }

create_resolution(data) ==
    /\ Len(resolutions) < MaxResolutions
    /\ resolutions' = Append(resolutions, data)
    /\ LET id == Len(resolutions) + 1
           plan == PlanRow(id, 1, data.frequency_per_week, data.min_minutes,
                           None, None)
       IN  IF PlanAccepted(plan)
           THEN /\ plans' = Append(plans, plan)
                /\ request' = Response("create_resolution", id, 200, "",
                                       NoChanges, 0, Len(plans) + 1)
           ELSE /\ plans' = plans
                /\ request' = Response("create_resolution", id, 500, "",
                                       NoChanges, 0, 0)
    /\ NoCheckinLocals
    /\ UNCHANGED <<pc, now, other_frictions, other_score,
                   time_window_required, checkin_rows, insight_actions,
                   inflight>>
    /\ UNCHANGED tablevars
    /\ UNCHANGED auxvars

\* _build_demo_data: did_minimum_action, friction, blocker, days_ago
DemoCheckins ==
    << <<TRUE, 1, FALSE, 12>>, <<TRUE, 1, FALSE, 11>>, <<TRUE, 2, FALSE, 9>>,
       <<TRUE, 3, TRUE, 7>>, <<FALSE, 3, TRUE, 6>>, <<FALSE, 3, TRUE, 4>>,
       <<FALSE, 3, TRUE, 3>>, <<TRUE, 2, FALSE, 1>> >>

CheckinRow(r, did, friction, blocker, at) ==
    [resolution_id |-> r, created_at |-> at, did_minimum_action |-> did,
     friction |-> friction, blocker |-> blocker]

\* _build_demo_data: the number of signals of each check-in
DemoSignals == <<3, 3, 1, 3, 3, 3, 3, 1>>

SignalRow(checkin_id) == [checkin_id |-> checkin_id]

RECURSIVE SignalRows(_, _)
\* the Signal rows of successive check-ins, the first with id checkin_id
SignalRows(checkin_id, counts) ==
    IF counts = <<>> THEN <<>>
    ELSE [i \in 1..Head(counts) |-> SignalRow(checkin_id)]
         \o SignalRows(checkin_id + 1, Tail(counts))

\* the resolution, its plan and the check-ins are committed one by one; the
\* MirrorReport is then built with the keywords recurring_blockers and
\* strength_pattern, which models.py does not declare: TypeError
seed_demo ==
    IF \E i \in DOMAIN resolutions : ResolutionExists(i) /\ resolutions[i].title = DemoTitle
    THEN /\ request' = Response("seed_demo",
                 CHOOSE i \in DOMAIN resolutions :
                     ResolutionExists(i) /\ resolutions[i].title = DemoTitle,
                 200, "", NoChanges, 0, 0)
         /\ NoCheckinLocals
         /\ UNCHANGED <<pc, now, other_frictions, other_score,
                        time_window_required, resolutions, plans,
                        checkin_rows, insight_actions, inflight>>
         /\ UNCHANGED tablevars
         /\ UNCHANGED auxvars
    ELSE /\ Len(resolutions) < MaxResolutions
         /\ LET id == Len(resolutions) + 1
            IN  /\ resolutions' = Append(resolutions,
                       [title |-> DemoTitle, frequency_per_week |-> 5,
                        min_minutes |-> 15])
                /\ plans' = Append(plans,
                                   PlanRow(id, 1, 5, 15, "morning", None))
                /\ checkin_rows' = checkin_rows \o
                       [i \in 1..Len(DemoCheckins) |->
                           CheckinRow(id, DemoCheckins[i][1],
                               DemoCheckins[i][2], DemoCheckins[i][3],
                               DtSub(now, timedelta(DemoCheckins[i][4],
                                                    0, 0, 0)))]
                /\ signals' = signals \o
                       SignalRows(Len(checkin_rows) + 1, DemoSignals)
                /\ request' = Response("seed_demo", id, 500, "", NoChanges,
                                       0, Len(plans) + 1)
         /\ NoCheckinLocals
         /\ UNCHANGED <<pc, now, other_frictions, other_score,
                        time_window_required, insight_actions, inflight,
                        mirror_reports, feedback, deleted,
                        foreign_keys_enforced>>
         /\ UNCHANGED auxvars

revert_to_original_plan(r) ==
    /\ IF ~ResolutionExists(r)
       THEN /\ request' = Response("revert", r, 404, "", NoChanges, 0, 0)
            /\ plans' = plans
       ELSE \E cur \in CurrentPlanIds(r) :
              IF cur = 0
              THEN /\ request' = Response("revert", r, 404, "", NoChanges,
                                          0, 0)
                   /\ plans' = plans
              ELSE /\ plans[cur].version < MaxVersion
                   /\ LET new_plan ==
                              PlanRow(r, plans[cur].version + 1,
                                      resolutions[r].frequency_per_week,
                                      resolutions[r].min_minutes, None, None)
                      IN  IF PlanAccepted(new_plan)
                          THEN /\ plans' = Append(plans, new_plan)
                               /\ request' = Response("revert", r, 200, "",
                                      NoChanges, cur, Len(plans) + 1)
                          ELSE /\ plans' = plans
                               /\ request' = Response("revert", r, 500, "",
                                      NoChanges, cur, 0)
    /\ NoCheckinLocals
    /\ UNCHANGED <<pc, now, other_frictions, other_score,
                   time_window_required, resolutions, checkin_rows,
                   insight_actions, inflight>>
    /\ UNCHANGED tablevars
    /\ UNCHANGED auxvars

\* action_taken as InsightActionCreate lets through
ActionsTaken == {"accept", "constrain", "ignore"}

\* suggested_changes: any JSON object, or none
SuggestedChanges ==
    { NoChanges,
      "min_minutes" :> 10,
      "min_minutes" :> 1,
      "frequency_per_week" :> 0,
      "time_window" :> "evening" }

InsightActionRow(r, m, action, changes) ==
    [resolution_id |-> r, mirror_report_id |-> m, action_taken |-> action,
     suggested_changes |-> changes]

\* m: data.mirror_report_id, 0 for None
create_insight_action(r, m, action, changes) ==
    /\ IF ~ResolutionExists(r) \/ (m # 0 /\ ~MirrorExists(m))
       THEN /\ request' = ForMirror(Response("insight_action", r, 404,
                                             action, changes, 0, 0), m)
            /\ UNCHANGED <<plans, insight_actions>>
       ELSE /\ Len(insight_actions) < MaxInsightActions
            /\ insight_actions' = Append(insight_actions,
                                      InsightActionRow(r, m, action, changes))
            /\ IF action = "accept" /\ changes # NoChanges
               THEN \E cur \in CurrentPlanIds(r) :
                      IF cur = 0
                      THEN /\ plans' = plans
                           /\ request' =
                                ForMirror(Response("insight_action", r, 200,
                                              action, changes, 0, 0), m)
                      ELSE /\ plans[cur].version < MaxVersion
                           /\ LET new_plan ==
                                    PlanRow(r, plans[cur].version + 1,
                                        Get(changes, "frequency_per_week",
                                            plans[cur].frequency_per_week),
                                        Get(changes, "min_minutes",
                                            plans[cur].min_minutes),
                                        None, "Accepted")
                              IN  IF PlanAccepted(new_plan)
                                  THEN /\ plans' = Append(plans, new_plan)
                                       /\ request' =
                                            ForMirror(Response(
                                                "insight_action", r, 200,
                                                action, changes, cur,
                                                Len(plans) + 1), m)
                                  ELSE /\ plans' = plans
                                       /\ request' =
                                            ForMirror(Response(
                                                "insight_action", r, 500,
                                                action, changes, cur, 0), m)
               ELSE /\ plans' = plans
                    /\ request' = ForMirror(Response("insight_action", r,
                                       200, action, changes, 0, 0), m)
    /\ NoCheckinLocals
    /\ UNCHANGED <<pc, now, other_frictions, other_score,
                   time_window_required, resolutions, checkin_rows, inflight>>
    /\ UNCHANGED tablevars
    /\ UNCHANGED auxvars

\* dt + timedelta
DtAdd(dt, td) == [secs |-> dt.secs + td.secs, us |-> dt.us]

\* time between two check-in requests
CheckinGap == timedelta(1, 0, 0, 0)

\* request bodies CheckinCreate lets through
StoreReports ==
    { [did_minimum_action |-> TRUE,  friction |-> 3, blocker |-> TRUE],
      [did_minimum_action |-> FALSE, friction |-> 3, blocker |-> FALSE] }

\* the demo was seeded, whether or not its resolution is still there
DemoSeeded == \E i \in DOMAIN resolutions : resolutions[i].title = DemoTitle

\* rows of the checkins table written by create_checkin
UserCheckins ==
    Len(checkin_rows) -
        Len(DemoCheckins) * Cardinality({i \in DOMAIN resolutions :
                                            resolutions[i].title = DemoTitle})

\* the metrics create_checkin hands to compute_plan_adjustment (lines
\* 198-208); completed is set to did_minimum_action on every row
AdjustmentMetrics(score, recent, n) ==
    [drift_score |-> score,
     avg_friction |-> Rat(SumFriction(recent), n),
     completion_rate |-> Rat(CountDone(recent), n),
     minimum_action_rate |-> Rat(CountDone(recent), n)]

\* the row create_new_plan_version adds for the current plan and a change set
create_new_plan_version(r, plan, changes, step) ==
    PlanRow(r, plan.version + 1,
            Get(changes, "frequency_per_week", plan.frequency_per_week),
            Get(changes, "min_minutes", plan.min_minutes),
            Get(changes, "time_window", plan.time_window), step)

\* param_changes = {k: v for k, v in changes.items()
\*                  if k != "simplify_minimum_action"}
param_changes(changes) ==
    [k \in DOMAIN changes \ {"simplify_minimum_action"} |-> changes[k]]

\* a plausible slip: the block of lines 223-228 still runs
plans_after_adjustment_applied(r, plan, result) ==
    IF DOMAIN param_changes(result.changes) # {}
    THEN Append(plans, create_new_plan_version(r, plan,
                           param_changes(result.changes), result.reason))
    ELSE plans

\* the plans table after the adjustment was computed: lines 223-228, which
\* applied it, are commented out
plans_after_adjustment(r, plan, result) == plans

\* how a call of the LLM ends: a text holding the JSON object asked for, a
\* text that does not, or call_gemini raising RuntimeError
LlmOutcomes == {"json", "unparseable", "error"}

\* status of the response: HTTPException 502 of extract_signals and
\* compose_mirror, 500 for the exception no handler catches
LlmStatus(outcome) ==
    IF outcome = "json" THEN 200
    ELSE IF outcome = "unparseable" THEN 502 ELSE 500

MirrorRow(r, score) == [resolution_id |-> r, drift_score |-> score]

\* extracted, composed: how the LLM call of extract_signals, of
\* compose_mirror ends; the LLM is taken to return one signal
create_checkin(r, report, extracted, composed) ==
    IF ~ResolutionExists(r)
    THEN /\ request' = Response("create_checkin", r, 404, "", NoChanges, 0, 0)
         /\ NoCheckinLocals
         /\ UNCHANGED <<pc, now, other_frictions, other_score,
                        time_window_required, resolutions, plans,
                        checkin_rows, insight_actions, inflight>>
         /\ UNCHANGED tablevars
         /\ UNCHANGED auxvars
    ELSE
      /\ UserCheckins < MaxStoreCheckins
      /\ now' = DtAdd(now, CheckinGap)
      /\ checkin_rows' = Append(checkin_rows,
             CheckinRow(r, report.did_minimum_action, report.friction,
                        report.blocker, now'))
      /\ extracted # "json" => composed = "json"
      /\ \E cur \in CurrentPlanIds(r) :
          IF extracted # "json"
          THEN /\ request' = Response("create_checkin", r,
                                      LlmStatus(extracted), "", NoChanges,
                                      cur, 0)
               /\ NoCheckinLocals
               /\ plans' = plans
               /\ UNCHANGED <<signals, mirror_reports>>
          ELSE
            /\ signals' = Append(signals, SignalRow(Len(checkin_rows')))
            /\ checkins' = CheckinsOf(checkin_rows', r)
            /\ current_plan' = IF cur = 0 THEN NoPlan ELSE plans[cur]
            /\ target_frequency' =
                   IF cur = 0 THEN resolutions[r].frequency_per_week
                   ELSE plans[cur].frequency_per_week
            /\ freq_stats' = get_weekly_frequency_stats(checkins',
                                 target_frequency', now')
            /\ rates' = local_rates(checkins', target_frequency', now')
            /\ drift_score' = compute_drift_score(checkins',
                                  target_frequency', now')
            /\ rules_applied' = get_drift_rules_applied(drift_score',
                                    checkins', target_frequency', now')
            /\ drift_triggered' = should_trigger_mirror(drift_score',
                                      Len(checkins'))
            /\ ~drift_triggered' => composed = "json"
            /\ request' = Response("create_checkin", r, LlmStatus(composed),
                              "", NoChanges, cur, 0)
            /\ suggestions' =
                   IF drift_triggered' /\ composed = "json"
                   THEN generate_actionable_suggestions(checkins',
                            current_plan', drift_score', freq_stats')
                   ELSE <<>>
            /\ mirror_reports' =
                   IF drift_triggered' /\ composed = "json"
                   THEN Append(mirror_reports, MirrorRow(r, drift_score'))
                   ELSE mirror_reports
            /\ recent_checkins' =
                   IF drift_triggered' /\ composed = "json" /\ cur # 0
                   THEN SubSeq(checkins', 1, Min(Len(checkins'), 10))
                   ELSE <<>>
            /\ metrics' =
                   IF drift_triggered' /\ composed = "json" /\ cur # 0
                   THEN AdjustmentMetrics(drift_score', recent_checkins',
                                          Len(recent_checkins'))
                   ELSE NoMetrics
            /\ adjustment' =
                   IF drift_triggered' /\ composed = "json" /\ cur # 0
                   THEN compute_plan_adjustment(current_plan', drift_score',
                            metrics'.avg_friction, metrics'.completion_rate,
                            metrics'.minimum_action_rate, recent_checkins')
                   ELSE NoAdjustment
            /\ plans' =
                   IF drift_triggered' /\ composed = "json" /\ cur # 0
                   THEN plans_after_adjustment(r, current_plan', adjustment')
                   ELSE plans
      /\ UNCHANGED <<pc, other_frictions, other_score, time_window_required,
                     resolutions, insight_actions, inflight, feedback,
                     deleted, foreign_keys_enforced>>
      /\ UNCHANGED auxvars

InitStore ==
    /\ pc = "store"
    /\ checkins = <<>>
    /\ target_frequency = 0
    /\ now = Wednesday
    /\ other_frictions = <<>>
    /\ NoDriftResult
    /\ NoAdjustmentCall
    /\ NoExplanation
    /\ time_window_required \in BOOLEAN
    /\ resolutions = <<>>
    /\ plans = <<>>
    /\ checkin_rows = <<>>
    /\ insight_actions = <<>>
    /\ request = NoRequest
    /\ inflight = <<>>
    /\ signals = <<>>
    /\ mirror_reports = <<>>
    /\ feedback = <<>>
    /\ deleted = NoneDeleted
    /\ foreign_keys_enforced = FALSE
    /\ NoAux

ResolutionIds == 1..MaxResolutions

\* most mirror report ids a request names
MaxMirrorIds == 1

MirrorIds == 1..MaxMirrorIds

NextStore ==
    \/ \E data \in ResolutionData : create_resolution(data)
    \/ seed_demo
    \/ \E r \in ResolutionIds, report \in StoreReports,
          extracted \in LlmOutcomes, composed \in LlmOutcomes :
           create_checkin(r, report, extracted, composed)
    \/ \E r \in ResolutionIds, action \in ActionsTaken,
          changes \in SuggestedChanges :
           create_insight_action(r, 0, action, changes)
    \/ \E r \in ResolutionIds : revert_to_original_plan(r)

SpecStore == InitStore /\ [][NextStore]_vars

\* the requests that write check-ins, on the resolutions they are made for
NextCheckin ==
    \/ \E data \in ResolutionData : create_resolution(data)
    \/ seed_demo
    \/ \E r \in ResolutionIds, report \in StoreReports,
          extracted \in LlmOutcomes, composed \in LlmOutcomes :
           create_checkin(r, report, extracted, composed)

SpecCheckin == InitStore /\ [][NextCheckin]_vars

PlanParameters == {"frequency_per_week", "min_minutes", "time_window"}

\* C13: a plan version built from a change set has version = current + 1,
\* the change set's value for each listed parameter and the current plan's
\* value for frequency_per_week, min_minutes, time_window when not listed
NewVersionKeepsUnlisted ==
    (request.op = "insight_action" /\ request.created # 0) =>
        LET new == plans[request.created]
            cur == plans[request.current]
        IN  /\ new.version = cur.version + 1
            /\ \A k \in PlanParameters :
                  new[k] = Get(request.changes, k, cur[k])

\* the parameter keys of the computed adjustment
RealKeys == Keys \ {"simplify_minimum_action"}

\* the check-in handled last fired the trigger and computed a change set
\* with a parameter key
AdjustmentProposed ==
    /\ request.op = "create_checkin"
    /\ request.status = 200
    /\ drift_triggered
    /\ RealKeys # {}

\* C14 as stated: after such a check-in the current plan is a new version,
\* previous + 1, carrying the changed value
AdjustmentCreatesVersion ==
    AdjustmentProposed =>
        \E i \in FirstByVersionDesc(request.resolution_id) :
            /\ plans[i].version = plans[request.current].version + 1
            /\ \A k \in RealKeys : plans[i][k] = adjustment.changes[k]

\* C14 amended: create_checkin creates no plan version, whatever the trigger
\* and the change set compute_plan_adjustment returned
CheckinKeepsPlans ==
    [][request'.op = "create_checkin" => plans' = plans]_vars

\* C14 witness: the trigger fired, the adjustment proposes a parameter and
\* the plan handed to it is still the current one
ProposedAndNotApplied ==
    /\ AdjustmentProposed
    /\ request.current \in FirstByVersionDesc(request.resolution_id)
    /\ plans[request.current] = current_plan

Versions(r) == { plans[i].version : i \in PlansOf(r) }

\* C15: every resolution has a plan, its versions are pairwise distinct and
\* exactly 1..n, and one plan holds the highest version
PlanVersionsWellFormed ==
    \A r \in DOMAIN resolutions :
        /\ PlansOf(r) # {}
        /\ Cardinality(Versions(r)) = Cardinality(PlansOf(r))
        /\ Versions(r) = 1..Cardinality(PlansOf(r))
        /\ Cardinality(FirstByVersionDesc(r)) = 1

\* C17: every stored plan has frequency_per_week >= 1 and min_minutes >= 5
StoredPlansWithinBounds ==
    \A i \in DOMAIN plans :
        plans[i].frequency_per_week >= 1 /\ plans[i].min_minutes >= 5

(***************************************************************************)
(* Plan-changing requests handled by separate workers.                     *)
(*                                                                         *)
(* The app is served as a serverless function (api/index.py), so two       *)
(* requests can run in two processes on the one database.  A handler reads *)
(* the current plan (resolutions.py:68-70, 126-128) and later commits the  *)
(* new row (83-84, 139-140); nothing locks the resolution in between and   *)
(* the plans table has no unique constraint on (resolution_id, version).   *)
(***************************************************************************)
Workers == {1, 2}

Idle == [op |-> "idle", resolution_id |-> 0, current |-> 0,
         changes |-> NoChanges]

\* revert_to_original_plan up to the query of the current plan
begin_revert(w, r) ==
    /\ inflight[w] = Idle
    /\ IF ~ResolutionExists(r)
       THEN /\ request' = Response("revert", r, 404, "", NoChanges, 0, 0)
            /\ inflight' = inflight
       ELSE \E cur \in CurrentPlanIds(r) :
              IF cur = 0
              THEN /\ request' = Response("revert", r, 404, "", NoChanges,
                                          0, 0)
                   /\ inflight' = inflight
              ELSE /\ plans[cur].version < MaxVersion
                   /\ inflight' = [inflight EXCEPT ![w] =
                          [op |-> "revert", resolution_id |-> r,
                           current |-> cur, changes |-> NoChanges]]
                   /\ request' = request
    /\ UNCHANGED <<pc, checkins, target_frequency, now, freq_stats, rates,
                   drift_score, drift_triggered, other_frictions, other_score,
                   current_plan, metrics, recent_checkins, adjustment,
                   rules_applied, suggestions, time_window_required,
                   resolutions, plans, checkin_rows, insight_actions>>
    /\ UNCHANGED tablevars
    /\ UNCHANGED auxvars

\* create_insight_action with action_taken 'accept' and a change set, up to
\* the query of the current plan: the InsightAction row is committed
begin_accept(w, r, changes) ==
    /\ inflight[w] = Idle
    /\ changes # NoChanges
    /\ IF ~ResolutionExists(r)
       THEN /\ request' = Response("insight_action", r, 404, "accept",
                                   changes, 0, 0)
            /\ UNCHANGED <<inflight, insight_actions>>
       ELSE /\ Len(insight_actions) < MaxInsightActions
            /\ insight_actions' = Append(insight_actions,
                                     InsightActionRow(r, 0, "accept", changes))
            /\ \E cur \in CurrentPlanIds(r) :
                 IF cur = 0
                 THEN /\ request' = Response("insight_action", r, 200,
                                         "accept", changes, 0, 0)
                      /\ inflight' = inflight
                 ELSE /\ plans[cur].version < MaxVersion
                      /\ inflight' = [inflight EXCEPT ![w] =
                             [op |-> "insight_action", resolution_id |-> r,
                              current |-> cur, changes |-> changes]]
                      /\ request' = request
    /\ UNCHANGED <<pc, checkins, target_frequency, now, freq_stats, rates,
                   drift_score, drift_triggered, other_frictions, other_score,
                   current_plan, metrics, recent_checkins, adjustment,
                   rules_applied, suggestions, time_window_required,
                   resolutions, plans, checkin_rows>>
    /\ UNCHANGED tablevars
    /\ UNCHANGED auxvars

\* the rest of either handler: the new Plan row, version = the version read
\* + 1, is added and committed
commit_plan(w) ==
    /\ inflight[w] # Idle
    /\ LET job == inflight[w]
           r == job.resolution_id
           cur == plans[job.current]
           new_plan ==
               IF job.op = "revert"
               THEN PlanRow(r, cur.version + 1,
                            resolutions[r].frequency_per_week,
                            resolutions[r].min_minutes, None, None)
               ELSE PlanRow(r, cur.version + 1,
                            Get(job.changes, "frequency_per_week",
                                cur.frequency_per_week),
                            Get(job.changes, "min_minutes", cur.min_minutes),
                            None, "Accepted")
           action == IF job.op = "revert" THEN "" ELSE "accept"
       IN  IF PlanAccepted(new_plan)
           THEN /\ plans' = Append(plans, new_plan)
                /\ request' = Response(job.op, r, 200, action, job.changes,
                                       job.current, Len(plans) + 1)
           ELSE /\ plans' = plans
                /\ request' = Response(job.op, r, 500, action, job.changes,
                                       job.current, 0)
    /\ inflight' = [inflight EXCEPT ![w] = Idle]
    /\ UNCHANGED <<pc, checkins, target_frequency, now, freq_stats, rates,
                   drift_score, drift_triggered, other_frictions, other_score,
                   current_plan, metrics, recent_checkins, adjustment,
                   rules_applied, suggestions, time_window_required,
                   resolutions, checkin_rows, insight_actions>>
    /\ UNCHANGED tablevars
    /\ UNCHANGED auxvars

InitRace ==
    /\ pc = "store"
    /\ checkins = <<>>
    /\ target_frequency = 0
    /\ now = Wednesday
    /\ other_frictions = <<>>
    /\ NoDriftResult
    /\ NoAdjustmentCall
    /\ NoExplanation
    /\ time_window_required \in BOOLEAN
    /\ resolutions = <<>>
    /\ plans = <<>>
    /\ checkin_rows = <<>>
    /\ insight_actions = <<>>
    /\ request = NoRequest
    /\ inflight = [w \in Workers |-> Idle]
    /\ signals = <<>>
    /\ mirror_reports = <<>>
    /\ feedback = <<>>
    /\ deleted = NoneDeleted
    /\ foreign_keys_enforced = FALSE
    /\ NoAux

NextRace ==
    \/ \E data \in ResolutionData : create_resolution(data)
    \/ seed_demo
    \/ \E w \in Workers, r \in ResolutionIds : begin_revert(w, r)
    \/ \E w \in Workers, r \in ResolutionIds, changes \in SuggestedChanges :
           begin_accept(w, r, changes)
    \/ \E w \in Workers : commit_plan(w)

SpecRace == InitRace /\ [][NextRace]_vars

\* C16: two plan-changing requests for one resolution never both read the
\* same current plan and create two Plan rows with the same version
NoDuplicateVersions ==
    \A i, j \in DOMAIN plans :
        (i # j /\ plans[i].resolution_id = plans[j].resolution_id)
            => plans[i].version # plans[j].version

(***************************************************************************)
(* The numeric pipeline of one check-in: create_checkin, lines 159-166 and *)
(* 192-219, on a check-in history and the current plan.                    *)
(***************************************************************************)
\* longest history of the scenarios
MaxScenario == 5

\* a miss as the scenarios describe it, and an easy completed session
ScenarioReports ==
    { [did_minimum_action |-> FALSE, friction |-> 3, blocker |-> FALSE],
      [did_minimum_action |-> TRUE,  friction |-> 1, blocker |-> FALSE] }

ScenarioPlans ==
    { [version |-> 1, frequency_per_week |-> f, min_minutes |-> m,
       time_window |-> w] :
        f \in {3, 5}, m \in {5, 15}, w \in {"morning", "night"} }

InitScenario ==
    /\ pc = "input"
    /\ \E l \in 0..MaxScenario :
         \E r \in [1..l -> ScenarioReports], k \in ThisWeekSplits(l) :
           checkins = History(l, r, k)
    /\ current_plan \in ScenarioPlans
    /\ target_frequency = current_plan.frequency_per_week
    /\ now = Wednesday
    /\ other_frictions = <<>>
    /\ NoDriftResult
    /\ NoExplanation
    /\ NoStore
    /\ NoAux
    /\ metrics = NoMetrics
    /\ recent_checkins = <<>>
    /\ adjustment = NoAdjustment

ProcessHistory ==
    /\ pc = "input"
    /\ freq_stats' = get_weekly_frequency_stats(checkins, target_frequency, now)
    /\ rates' = local_rates(checkins, target_frequency, now)
    /\ drift_score' = compute_drift_score(checkins, target_frequency, now)
    /\ rules_applied' = get_drift_rules_applied(drift_score', checkins,
                                                target_frequency, now)
    /\ drift_triggered' = should_trigger_mirror(drift_score', Len(checkins))
    /\ suggestions' =
           IF drift_triggered'
           THEN generate_actionable_suggestions(checkins, current_plan,
                                                drift_score', freq_stats')
           ELSE <<>>
    /\ recent_checkins' =
           IF drift_triggered'
           THEN SubSeq(checkins, 1, Min(Len(checkins), 10)) ELSE <<>>
    /\ metrics' =
           IF drift_triggered'
           THEN AdjustmentMetrics(drift_score', recent_checkins',
                                  Len(recent_checkins'))
           ELSE NoMetrics
    /\ adjustment' =
           IF drift_triggered'
           THEN compute_plan_adjustment(current_plan, drift_score',
                    metrics'.avg_friction, metrics'.completion_rate,
                    metrics'.minimum_action_rate, recent_checkins')
           ELSE NoAdjustment
    /\ pc' = "done"
    /\ UNCHANGED <<checkins, target_frequency, now, other_frictions,
                   other_score, current_plan>>
    /\ UNCHANGED storevars
    /\ UNCHANGED auxvars

NextScenario == ProcessHistory

SpecScenario == InitScenario /\ [][NextScenario]_vars

\* five check-ins, all misses of friction 3 without a blocker, target 5
AllMisses ==
    /\ Len(checkins) = 5
    /\ \A i \in 1..5 :
          /\ ~checkins[i].did_minimum_action
          /\ checkins[i].friction = 3
          /\ ~checkins[i].blocker
    /\ target_frequency = 5

\* the tags of the rules returned
TagsApplied == { rules_applied[i].tag : i \in DOMAIN rules_applied }

\* C21: for five misses (friction 3, no blocker) and target 5 the weekly rate
\* is 0, the drift score exceeds 0.8, the trigger fires, a below_weekly_target
\* or declining_frequency rule is returned and the adjustment is exactly
\* {simplify_minimum_action: true}
AllMissScenario ==
    (pc = "done" /\ AllMisses) =>
        /\ freq_stats.this_week_rate = 0
        /\ RatLt(Rat(8, 10), drift_score)
        /\ drift_triggered
        /\ TagsApplied \cap {"below_weekly_target", "declining_frequency"} # {}
        /\ RatEq(metrics.minimum_action_rate, Rat(0, 1))
        /\ adjustment.changes = ("simplify_minimum_action" :> TRUE)

\* C21 witness: the scenario was processed, for misses of this week
AllMissesProcessed ==
    /\ pc = "done"
    /\ AllMisses
    /\ \A i \in 1..5 : DtLe(this_week_start(now), checkins[i].created_at)
    /\ RatEq(drift_score, Rat(85, 100))

(***************************************************************************)
(* create_checkin and the LLM                                              *)
(***************************************************************************)
\* the request handled last was a check-in for an existing resolution
CheckinHandled == request.op = "create_checkin" /\ request.status # 404

\* C22: a failing LLM call does not abort a check-in: every check-in for an
\* existing resolution is answered 200 with the computed drift_score,
\* rules_applied and drift_triggered
CheckinSurvivesLlmFailure ==
    CheckinHandled =>
        /\ request.status = 200
        /\ rules_applied # <<>>
        /\ drift_score = compute_drift_score(checkins, target_frequency, now)

\* C27: a check-in answered with an error (404, 502, 500) leaves the store
\* as it was: no Checkin, Signal or MirrorReport row is added
FailedCheckinLeavesStore ==
    [][(request'.op = "create_checkin" /\ request'.status # 200)
          => UNCHANGED <<checkin_rows, signals, mirror_reports>>]_vars

(***************************************************************************)
(* Insight actions that may name a mirror report                           *)
(***************************************************************************)
NextInsight ==
    \/ \E data \in ResolutionData : create_resolution(data)
    \/ seed_demo
    \/ \E r \in ResolutionIds, report \in StoreReports,
          extracted \in LlmOutcomes, composed \in LlmOutcomes :
           create_checkin(r, report, extracted, composed)
    \/ \E r \in ResolutionIds, m \in {0} \cup MirrorIds,
          action \in ActionsTaken, changes \in SuggestedChanges :
           create_insight_action(r, m, action, changes)

SpecInsight == InitStore /\ [][NextInsight]_vars

\* the resolution or the mirror report an insight action names is missing
InsightTargetMissing ==
    \/ ~ResolutionExists(request'.resolution_id)
    \/ /\ request'.mirror_report_id # 0
       /\ ~MirrorExists(request'.mirror_report_id)

\* C26: create_insight_action answers 404 and changes nothing when the
\* resolution or the mirror report is missing; otherwise it records one
\* InsightAction row, and adds a plan version exactly when action_taken is
\* accept, suggested_changes is non-empty and a current plan exists
InsightActionEffect ==
    [][request'.op = "insight_action" =>
         /\ (request'.status = 404) <=> InsightTargetMissing
         /\ IF InsightTargetMissing
            THEN UNCHANGED <<plans, insight_actions>>
            ELSE /\ Len(insight_actions') = Len(insight_actions) + 1
                 /\ SubSeq(plans', 1, Len(plans)) = plans
                 /\ Len(plans') =
                        IF /\ request'.action_taken = "accept"
                           /\ request'.changes # NoChanges
                           /\ PlansOf(request'.resolution_id) # {}
                        THEN Len(plans) + 1 ELSE Len(plans)]_vars

(***************************************************************************)
(* Feedback on mirror reports and the deletion of a resolution.            *)
(*                                                                         *)
(* models.py declares foreign keys, which SQLite checks only under         *)
(* PRAGMA foreign_keys = ON (db.py does not set it) and other databases    *)
(* always check: foreign_keys_enforced.  Ids of deleted rows are not given *)
(* to new rows.                                                            *)
(***************************************************************************)
\* most feedback rows the handlers are followed to
MaxFeedback == 1

FeedbackRow(m, helpful) == [mirror_report_id |-> m, helpful |-> helpful]

\* dashboard.py, submit_feedback: the id is not looked up
submit_feedback(m, helpful) ==
    /\ Len(feedback) < MaxFeedback
    /\ IF foreign_keys_enforced /\ ~MirrorExists(m)
       THEN /\ feedback' = feedback
            /\ request' = ForMirror(Response("submit_feedback", 0, 500, "",
                                             NoChanges, 0, 0), m)
       ELSE /\ feedback' = Append(feedback, FeedbackRow(m, helpful))
            /\ request' = ForMirror(Response("submit_feedback", 0, 200, "",
                                             NoChanges, 0, 0), m)
    /\ NoCheckinLocals
    /\ UNCHANGED <<pc, now, other_frictions, other_score,
                   time_window_required, resolutions, plans, checkin_rows,
                   insight_actions, inflight, signals, mirror_reports,
                   deleted, foreign_keys_enforced>>
    /\ UNCHANGED auxvars

\* ids of the rows of a table that name resolution r and are not deleted
RowsOf(table, gone, r) ==
    {i \in DOMAIN table \ gone : table[i].resolution_id = r}

\* Signal.checkin_id.in_(checkin_ids)
SignalsOf(checkin_ids) ==
    {i \in DOMAIN signals \ deleted.signals :
        signals[i].checkin_id \in checkin_ids}

\* rows delete_resolution does not delete that reference rows it deletes
ReferencedElsewhere(r, mirror_ids) ==
    \/ \E i \in DOMAIN insight_actions :
          \/ insight_actions[i].resolution_id = r
          \/ insight_actions[i].mirror_report_id \in mirror_ids
    \/ \E i \in DOMAIN feedback : feedback[i].mirror_report_id \in mirror_ids

delete_resolution(r) ==
    /\ IF ~ResolutionExists(r)
       THEN /\ request' = Response("delete_resolution", r, 404, "",
                                   NoChanges, 0, 0)
            /\ deleted' = deleted
       ELSE LET checkin_ids == RowsOf(checkin_rows, deleted.checkin_rows, r)
                mirror_ids ==
                    RowsOf(mirror_reports, deleted.mirror_reports, r)
            IN  IF foreign_keys_enforced /\ ReferencedElsewhere(r, mirror_ids)
                THEN /\ request' = Response("delete_resolution", r, 500, "",
                                            NoChanges, 0, 0)
                     /\ deleted' = deleted
                ELSE /\ request' = Response("delete_resolution", r, 200, "",
                                            NoChanges, 0, 0)
                     /\ deleted' =
                          [resolutions |-> deleted.resolutions \cup {r},
                           plans |-> deleted.plans \cup PlansOf(r),
                           checkin_rows |->
                               deleted.checkin_rows \cup checkin_ids,
                           signals |->
                               deleted.signals \cup SignalsOf(checkin_ids),
                           mirror_reports |->
                               deleted.mirror_reports \cup mirror_ids]
    /\ NoCheckinLocals
    /\ UNCHANGED <<pc, now, other_frictions, other_score,
                   time_window_required, resolutions, plans, checkin_rows,
                   insight_actions, inflight, signals, mirror_reports,
                   feedback, foreign_keys_enforced>>
    /\ UNCHANGED auxvars

InitDelete ==
    /\ pc = "store"
    /\ checkins = <<>>
    /\ target_frequency = 0
    /\ now = Wednesday
    /\ other_frictions = <<>>
    /\ NoDriftResult
    /\ NoAdjustmentCall
    /\ NoExplanation
    /\ time_window_required \in BOOLEAN
    /\ resolutions = <<>>
    /\ plans = <<>>
    /\ checkin_rows = <<>>
    /\ insight_actions = <<>>
    /\ request = NoRequest
    /\ inflight = <<>>
    /\ signals = <<>>
    /\ mirror_reports = <<>>
    /\ feedback = <<>>
    /\ deleted = NoneDeleted
    /\ foreign_keys_enforced \in BOOLEAN
    /\ NoAux

\* no insight action proposes a change here
NextDelete ==
    \/ \E data \in ResolutionData : create_resolution(data)
    \/ seed_demo
    \/ \E r \in ResolutionIds, report \in StoreReports,
          extracted \in LlmOutcomes, composed \in LlmOutcomes :
           create_checkin(r, report, extracted, composed)
    \/ \E r \in ResolutionIds, m \in {0} \cup MirrorIds :
           create_insight_action(r, m, "ignore", NoChanges)
    \/ \E m \in MirrorIds, helpful \in BOOLEAN : submit_feedback(m, helpful)
    \/ \E r \in ResolutionIds : delete_resolution(r)

SpecDelete == InitDelete /\ [][NextDelete]_vars

\* C29: no remaining row references a deleted resolution or a deleted row:
\* no Plan, Checkin, MirrorReport or InsightAction of a deleted resolution,
\* no Signal of a deleted check-in, no Feedback or InsightAction of a deleted
\* mirror report
NoDanglingReferences ==
    /\ \A r \in deleted.resolutions :
          /\ PlansOf(r) = {}
          /\ RowsOf(checkin_rows, deleted.checkin_rows, r) = {}
          /\ RowsOf(mirror_reports, deleted.mirror_reports, r) = {}
          /\ \A i \in DOMAIN insight_actions :
                insight_actions[i].resolution_id # r
    /\ SignalsOf(deleted.checkin_rows) = {}
    /\ \A i \in DOMAIN feedback :
          feedback[i].mirror_report_id \notin deleted.mirror_reports
    /\ \A i \in DOMAIN insight_actions :
          insight_actions[i].mirror_report_id \notin deleted.mirror_reports

(***************************************************************************)
(* Two calls of the drift functions with the same arguments.               *)
(*                                                                         *)
(* get_weekly_frequency_stats reads datetime.now(timezone.utc) (drift.py,  *)
(* line 32); compute_drift_score and get_drift_rules_applied call it.      *)
(***************************************************************************)
\* longest history handed to the two calls
MaxRepeat == 3

\* the time between the two calls: a second, a day, a week
CallGaps ==
    { timedelta(0, 0, 0, 1), timedelta(1, 0, 0, 0), timedelta(7, 0, 0, 0) }

InitRepeat ==
    /\ pc = "input"
    /\ \E l \in 0..MaxRepeat :
         \E r \in [1..l -> Reports], k \in ThisWeekSplits(l) :
           checkins = History(l, r, k)
    /\ target_frequency \in DriftTargets
    /\ now = Wednesday
    /\ other_frictions = <<>>
    /\ NoDriftResult
    /\ NoExplanation
    /\ NoStore
    /\ NoAux
    /\ NoAdjustmentCall

\* the functions are called at now and, with the same arguments, gap later
CallTwice(gap) ==
    /\ pc = "input"
    /\ freq_stats' = get_weekly_frequency_stats(checkins, target_frequency, now)
    /\ rates' = local_rates(checkins, target_frequency, now)
    /\ drift_score' = compute_drift_score(checkins, target_frequency, now)
    /\ rules_applied' = get_drift_rules_applied(drift_score', checkins,
                                                target_frequency, now)
    /\ drift_triggered' = should_trigger_mirror(drift_score', Len(checkins))
    /\ LET later == DtAdd(now, gap)
           score == compute_drift_score(checkins, target_frequency, later)
       IN  second_call' =
               [now |-> later,
                stats |-> get_weekly_frequency_stats(checkins,
                              target_frequency, later),
                score |-> score,
                rules |-> get_drift_rules_applied(score, checkins,
                              target_frequency, later)]
    /\ pc' = "done"
    /\ UNCHANGED <<checkins, target_frequency, now, other_frictions,
                   other_score, current_plan, metrics, recent_checkins,
                   adjustment, suggestions, dashboard, limiter, gemini>>
    /\ UNCHANGED storevars

NextRepeat == \E gap \in CallGaps : CallTwice(gap)

SpecRepeat == InitRepeat /\ [][NextRepeat]_vars

\* C23: two calls with the same check-in list and the same target frequency
\* return the same statistics, the same drift score and the same rules,
\* whatever the moments of the calls
SameArgumentsSameResult ==
    pc = "done" =>
        /\ second_call.stats = freq_stats
        /\ second_call.score = drift_score
        /\ second_call.rules = rules_applied

(***************************************************************************)
(* RateLimitMiddleware (main.py, lines 27-65).                             *)
(*                                                                         *)
(* A path is the sequence of its segments, "/api/dashboard/1" being        *)
(* <<"api", "dashboard", "1">>; a trailing slash gives an empty last       *)
(* segment.  time.time() is read in whole seconds and never goes back.     *)
(***************************************************************************)
default_rpm == 60
llm_rpm == 15

\* length of the sliding window in seconds: now - t < 60
WindowSeconds == 60

LLM_PATHS ==
    { <<"api", "reality-check", "assess", "">>,
      <<"api", "reality-check", "generate-options", "">>,
      <<"api", "dashboard">> }

\* path.startswith(p)
startswith(path, p) ==
    /\ Len(p) <= Len(path)
    /\ \A i \in 1..Len(p) : path[i] = p[i]

_is_llm_path(path) == \E p \in LLM_PATHS : startswith(path, p)

\* the readings of time.time() at which requests arrive
Instants == <<0, 59, 60>>

\* requests the keys other than the loaded one send
MaxOtherHits == 1

ClientIps == {"10.0.0.1", "10.0.0.2"}

Paths == { <<"api", "dashboard", "1">>, <<"api", "checkins">> }

\* key = f"{client_ip}:{path}"
LimiterKeys == ClientIps \X Paths

\* the keys one client loads up to the limit
LoadedKeys == {"10.0.0.1"} \X Paths

\* self._hits[key] of a defaultdict(list)
HitsOf(hits, key) == IF key \in DOMAIN hits THEN hits[key] ELSE <<>>

\* _clean dropping the entries a second early
_clean_early(hits, key, t) ==
    LET Young(h) == t - h < WindowSeconds - 1
    IN  (key :> SelectSeq(HitsOf(hits, key), Young)) @@ hits

\* _clean: the entries of the key younger than 60 s
_clean(hits, key, t) ==
    LET Young(h) == t - h < WindowSeconds
    IN  (key :> SelectSeq(HitsOf(hits, key), Young)) @@ hits

LimitOf(path) == IF _is_llm_path(path) THEN llm_rpm ELSE default_rpm

\* requests of a key passed to call_next in the last 60 seconds, counted per
\* instant
ForwardedAt(forwarded, key, i) ==
    IF <<key, i>> \in DOMAIN forwarded THEN forwarded[<<key, i>>] ELSE 0

RECURSIVE SumForwarded(_, _)
SumForwarded(forwarded, entries) ==
    IF entries = {} THEN 0
    ELSE LET e == CHOOSE x \in entries : TRUE
         IN  forwarded[e] + SumForwarded(forwarded, entries \ {e})

\* requests of a key forwarded in the 60 seconds that end at instant i
ForwardedInWindow(forwarded, key, i) ==
    SumForwarded(forwarded,
                 {e \in DOMAIN forwarded :
                     /\ e[1] = key
                     /\ e[2] <= i
                     /\ Instants[i] - Instants[e[2]] < WindowSeconds})

\* requests of the keys that are not the loaded one
OtherHits ==
    SumForwarded(limiter.forwarded,
                 {e \in DOMAIN limiter.forwarded : e[1] # limiter.loaded})

InitLimiter ==
    /\ pc = "limiter"
    /\ checkins = <<>>
    /\ target_frequency = 3
    /\ now = Wednesday
    /\ other_frictions = <<>>
    /\ NoDriftResult
    /\ NoExplanation
    /\ NoStore
    /\ dashboard = NoDashboard
    /\ second_call = NoSecondCall
    /\ gemini = NoGemini
    /\ \E k \in LoadedKeys : limiter = [NoLimiter EXCEPT !.loaded = k]
    /\ NoAdjustmentCall

\* RateLimitMiddleware.dispatch for a request of client ip on path
dispatch(ip, path) ==
    LET key == <<ip, path>>
        t == Instants[limiter.at]
        hits == _clean(limiter.hits, key, t)
        limit == LimitOf(path)
    IN  /\ pc = "limiter"
        /\ key # limiter.loaded => OtherHits < MaxOtherHits
        /\ IF Len(hits[key]) >= limit
           THEN limiter' = [limiter EXCEPT !.hits = hits, !.key = key,
                                           !.status = 429]
           ELSE limiter' =
                   [limiter EXCEPT
                       !.hits = (key :> Append(hits[key], t)) @@ hits,
                       !.forwarded =
                           (<<key, limiter.at>> :>
                               ForwardedAt(limiter.forwarded, key,
                                           limiter.at) + 1) @@ @,
                       !.key = key,
                       !.status = 200]
        /\ UNCHANGED <<pc, checkins, target_frequency, now, freq_stats, rates,
                       drift_score, drift_triggered, other_frictions,
                       other_score, current_plan, metrics, recent_checkins,
                       adjustment, dashboard, second_call, gemini>>
        /\ UNCHANGED explainvars
        /\ UNCHANGED storevars

\* the forwarded requests that lie in the 60 seconds ending at instant i
StillInWindow(forwarded, i) ==
    LET keep == {e \in DOMAIN forwarded :
                    Instants[i] - Instants[e[2]] < WindowSeconds}
    IN  [e \in keep |-> forwarded[e]]

\* time passes until the next instant; no request is being handled
Tick ==
    /\ pc = "limiter"
    /\ limiter.at < Len(Instants)
    /\ limiter' = [limiter EXCEPT
                       !.at = @ + 1,
                       !.forwarded = StillInWindow(@, limiter.at + 1),
                       !.key = <<>>,
                       !.status = 0]
    /\ UNCHANGED <<pc, checkins, target_frequency, now, freq_stats, rates,
                   drift_score, drift_triggered, other_frictions,
                   other_score, current_plan, metrics, recent_checkins,
                   adjustment, dashboard, second_call, gemini>>
    /\ UNCHANGED explainvars
    /\ UNCHANGED storevars

NextLimiter ==
    \/ \E ip \in ClientIps, path \in Paths : dispatch(ip, path)
    \/ Tick

SpecLimiter == InitLimiter /\ [][NextLimiter]_vars

MAX_RETRIES == 3
INITIAL_BACKOFF == 2

\* the substrings is_retryable looks for in str(e).lower()
RetryableMarkers ==
    {"503", "overloaded", "unavailable", "429", "rate", "quota", "timeout"}

ErrorText(text, contains) ==
    [kind |-> "error", text |-> text, contains |-> contains]

\* raise RuntimeError("Gemini returned empty response")
EmptyResponse == ErrorText("gemini returned empty response", {})

\* exceptions generate_content raises
GeminiErrors ==
    { ErrorText("503 unavailable. the model is overloaded.",
                {"503", "unavailable", "overloaded"}),
      ErrorText("429 resource_exhausted. you exceeded your current quota",
                {"429", "quota"}),
      ErrorText("the read operation timed out", {}),
      ErrorText("request timeout", {"timeout"}),
      ErrorText("failed to generate content", {"rate"}),
      ErrorText("400 invalid_argument. api key not valid", {}),
      ErrorText("403 permission_denied", {}) }

\* what one generate_content call does: a text, no text, or an exception
GeminiOutcomes ==
    { [kind |-> "text", text |-> "{\"signals\": []}", contains |-> {}],
      [kind |-> "empty", text |-> "", contains |-> {}] } \cup GeminiErrors

\* the exception the try block ends with, if any
ErrorOf(outcome) ==
    IF outcome.kind = "empty" THEN EmptyResponse ELSE outcome

\* every exception counted as retryable
is_retryable_always(e) == e.contains \cap RetryableMarkers # {} \/ TRUE

is_retryable(e) == e.contains \cap RetryableMarkers # {}

\* backoff = INITIAL_BACKOFF * (2 ** attempt)
backoff(attempt) == INITIAL_BACKOFF * (2 ^ attempt)

InitGemini ==
    /\ pc = "gemini"
    /\ checkins = <<>>
    /\ target_frequency = 3
    /\ now = Wednesday
    /\ other_frictions = <<>>
    /\ NoDriftResult
    /\ NoExplanation
    /\ NoStore
    /\ dashboard = NoDashboard
    /\ second_call = NoSecondCall
    /\ limiter = NoLimiter
    /\ \E key \in BOOLEAN, client \in BOOLEAN :
         gemini = [NoGemini EXCEPT !.at = "called", !.api_key = key,
                                   !.client = client]
    /\ NoAdjustmentCall

\* lines 114-119: the checks before the loop
call_gemini ==
    /\ pc = "gemini"
    /\ gemini.at = "called"
    /\ gemini' =
          IF ~gemini.api_key
          THEN [gemini EXCEPT !.at = "raised",
                              !.last_error = "GEMINI_API_KEY not set"]
          ELSE IF ~gemini.client
          THEN [gemini EXCEPT !.at = "raised",
                              !.last_error = "Failed to initialize client"]
          ELSE [gemini EXCEPT !.at = "attempt", !.attempt = 0]

\* lines 133-166: one pass of the loop up to the return, the raise or the sleep
generate_content(outcome) ==
    /\ pc = "gemini"
    /\ gemini.at = "attempt"
    /\ gemini' =
          IF outcome.kind = "text"
          THEN [gemini EXCEPT !.at = "returned",
                              !.attempts = Append(@, outcome)]
          ELSE LET e == ErrorOf(outcome)
               IN  IF is_retryable(e) /\ gemini.attempt < MAX_RETRIES - 1
                   THEN [gemini EXCEPT
                            !.at = "sleeping",
                            !.attempts = Append(@, outcome),
                            !.last_error = e.text,
                            !.slept = Append(@, backoff(gemini.attempt))]
                   ELSE [gemini EXCEPT
                            !.at = "raised",
                            !.attempts = Append(@, outcome),
                            !.last_error = e.text]

\* asyncio.sleep(backoff) is over: the loop goes on with the next attempt
sleep_over ==
    /\ pc = "gemini"
    /\ gemini.at = "sleeping"
    /\ gemini' = [gemini EXCEPT !.at = "attempt", !.attempt = @ + 1]

GeminiStep ==
    \/ call_gemini
    \/ \E outcome \in GeminiOutcomes : generate_content(outcome)
    \/ sleep_over

NextGemini ==
    /\ GeminiStep
    /\ UNCHANGED <<pc, checkins, target_frequency, now, freq_stats, rates,
                   drift_score, drift_triggered, other_frictions,
                   other_score, current_plan, metrics, recent_checkins,
                   adjustment, dashboard, second_call, limiter>>
    /\ UNCHANGED explainvars
    /\ UNCHANGED storevars

\* generate_content returns or raises, and the event loop resumes the
\* coroutine when the sleep is over
SpecGemini == InitGemini /\ [][NextGemini]_vars /\ WF_vars(NextGemini)

\* the attempt that failed with a retryable error
Retried(outcome) ==
    outcome.kind # "text" /\ is_retryable(ErrorOf(outcome))

\* the backoffs slept before n further attempts: 2 s, then 4 s
Backoffs(n) == SubSeq(<<2, 4>>, 1, n)

GeminiOver == gemini.at \in {"returned", "raised"}

\* C25: call_gemini makes at most 3 attempts, a further one only after a
\* retryable error and a backoff of 2 s then 4 s; a non-retryable error, an
\* empty response or the failure of the third attempt is raised; every call
\* ends with a non-empty text or a raised error
RetryLoopBounded ==
    /\ [](LET n == Len(gemini.attempts)
          IN  /\ n <= 3
              /\ \A i \in 1..(n - 1) : Retried(gemini.attempts[i])
              /\ gemini.slept =
                     Backoffs(IF gemini.at \in {"returned", "raised", "idle",
                                                "called"}
                              THEN IF n = 0 THEN 0 ELSE n - 1
                              ELSE n)
              /\ gemini.at = "returned" =>
                     gemini.attempts[n].kind = "text"
              /\ gemini.at = "raised" /\ n > 0 =>
                     /\ gemini.attempts[n].kind # "text"
                     /\ gemini.last_error = ErrorOf(gemini.attempts[n]).text
                     /\ ~Retried(gemini.attempts[n]) \/ n = 3
              /\ n > 0 /\ gemini.attempts[n].kind = "empty" =>
                     gemini.at = "raised"
              /\ n > 0 /\ gemini.attempts[n].kind # "text"
                       /\ (~Retried(gemini.attempts[n]) \/ n = 3) =>
                     gemini.at = "raised")
    /\ <>GeminiOver

\* the third attempt failed with a retryable error after backoffs of 2 and 4 s
ThirdAttemptRaised ==
    /\ gemini.at = "raised"
    /\ Len(gemini.attempts) = 3
    /\ Retried(gemini.attempts[3])
    /\ gemini.slept = <<2, 4>>

(***************************************************************************)
(* The dashboard's trigger (dashboard.py, lines 16-101 and 190-225) and    *)
(* the trigger of create_checkin (checkins.py, lines 143-166) for the same *)
(* check-ins, target and instant.                                          *)
(***************************************************************************)
\* longest history read by the dashboard
MaxDashboard == 5

\* .order_by(Checkin.created_at.desc()).limit(10)
DashboardLimit == 10

\* calculate_metrics: drift_score in hundredths, as round(drift_score, 2) gives
calculate_metrics(cs, target, t) ==
    IF Len(cs) = 0
    THEN [drift_score |-> 0, total_checkins |-> 0]
    ELSE [drift_score |-> round2(compute_drift_score(cs, target, t)),
          total_checkins |-> Len(cs)]

\* get_dashboard_for_resolution over the check-ins of the resolution, newest
\* first
get_dashboard_for_resolution(all_checkins, target, t) ==
    LET cs == SubSeq(all_checkins, 1, Min(Len(all_checkins), DashboardLimit))
        m == calculate_metrics(cs, target, t)
    IN  [drift_score |-> m.drift_score,
         total_checkins |-> m.total_checkins,
         drift_triggered |-> m.drift_score > 40 /\ m.total_checkins >= 3]

InitDashboard ==
    /\ pc = "input"
    /\ \E l \in 0..MaxDashboard :
         \E r \in [1..l -> Reports], k \in ThisWeekSplits(l) :
           checkins = History(l, r, k)
    /\ target_frequency \in DriftTargets
    /\ now = Wednesday
    /\ other_frictions = <<>>
    /\ NoDriftResult
    /\ NoExplanation
    /\ NoStore
    /\ NoAux
    /\ NoAdjustmentCall

\* create_checkin's trigger and the dashboard's, for the same check-ins
ReadDashboard ==
    /\ pc = "input"
    /\ freq_stats' = get_weekly_frequency_stats(checkins, target_frequency, now)
    /\ rates' = local_rates(checkins, target_frequency, now)
    /\ drift_score' = compute_drift_score(checkins, target_frequency, now)
    /\ drift_triggered' = should_trigger_mirror(drift_score', Len(checkins))
    /\ dashboard' = get_dashboard_for_resolution(checkins, target_frequency,
                                                 now)
    /\ pc' = "done"
    /\ UNCHANGED <<checkins, target_frequency, now, other_frictions,
                   other_score, current_plan, metrics, recent_checkins,
                   adjustment, second_call, limiter, gemini>>
    /\ UNCHANGED explainvars
    /\ UNCHANGED storevars

NextDashboard == ReadDashboard

SpecDashboard == InitDashboard /\ [][NextDashboard]_vars

\* C28: for the same check-ins, plan and instant the dashboard's
\* drift_triggered equals the drift_triggered create_checkin computes
DashboardAgreesWithCheckin ==
    pc = "done" => dashboard.drift_triggered = drift_triggered

(***************************************************************************)
(* The direction of a duration change (plan_adjuster.py, lines 90-99).     *)
(***************************************************************************)
\* C30: the min_minutes compute_plan_adjustment proposes is never greater than
\* the min_minutes of the current plan
DurationNeverLengthens ==
    pc = "done" /\ "min_minutes" \in DOMAIN adjustment.changes =>
        adjustment.changes["min_minutes"] <= current_plan.min_minutes

====
